---- MODULE Spec2Model ----
(***************************************************************************)
(* Network cards (src/src/network_cards/network_cards.py).                 *)
(*                                                                         *)
(* A NetworkCard is three insertion-ordered dicts (D_overall, D_structr,   *)
(* D_metainf) from field name to entry, plus five stored size counters.    *)
(* An entry is either a bare value or a tuple/list (value, note, ...).     *)
(* A dict is modelled as a sequence of items [field, value, notes] with    *)
(* pairwise distinct fields; notes = <<>> is a bare value, a non-empty     *)
(* notes is the tuple/list form (the code treats tuple and list alike,     *)
(* isinstance(entry, (tuple, list))).                                      *)
(***************************************************************************)
EXTENDS Integers, Sequences, FiniteSets, TLC

VARIABLES D_overall, D_structr, D_metainf,
          n_ov, n_st, n_mi, n_ov_st, n_ov_st_mi,
          last, out

panels == <<D_overall, D_structr, D_metainf>>
sizes  == <<n_ov, n_st, n_mi, n_ov_st, n_ov_st_mi>>
vars   == <<D_overall, D_structr, D_metainf,
            n_ov, n_st, n_mi, n_ov_st, n_ov_st_mi, last, out>>

(***************************************************************************)
(* Bounds of the model.                                                    *)
(***************************************************************************)
\* largest number of fields held by one card (all panels together)
MaxFields == 2
\* largest number of footnotes held by one card (all fields together)
MaxNotes == 2

(***************************************************************************)
(* Python values.                                                          *)
(***************************************************************************)
PyStr(s) == [type |-> "str", s |-> s, n |-> 0]
PyInt(n) == [type |-> "int", s |-> "", n |-> n]
PyNone   == [type |-> "NoneType", s |-> "", n |-> 0]

\* bool(v) of a scalar
Truthy(v) ==
    CASE v.type = "str" -> v.s # ""
      [] v.type = "int" -> v.n # 0
      [] OTHER -> FALSE

\* NetworkCard._null_string
null_string == PyStr("")

_panel_names == <<"Overall", "Structure", "Metainformation">>
PanelNames == {_panel_names[i] : i \in 1..3}

\* field names used as inputs, listed in Python's string order
FieldOrder == <<"Degree", "Name">>
Fields == {FieldOrder[i] : i \in 1..Len(FieldOrder)}
\* footnote texts used as inputs
Notes == {"n1", "n2"}
\* values a caller passes explicitly
Values == {PyStr("x"), PyInt(0)}

Item(f, v, ns) == [field |-> f, value |-> v, notes |-> ns]

(***************************************************************************)
(* dict operations on a sequence of items.                                 *)
(***************************************************************************)
Keys(d) == {d[i].field : i \in 1..Len(d)}
KeyList(d) == [i \in 1..Len(d) |-> d[i].field]
IndexOf(d, f) == CHOOSE i \in 1..Len(d) : d[i].field = f
Get(d, f) == d[IndexOf(d, f)]

\* d[f] = entry: an existing key keeps its position, a new key goes last
DictSetMovesToEnd(d, it) ==
    SelectSeq(d, LAMBDA x : x.field # it.field) \o <<it>>
DictSet(d, it) ==
    IF it.field \in Keys(d)
    THEN [i \in 1..Len(d) |-> IF d[i].field = it.field THEN it ELSE d[i]]
    ELSE Append(d, it)

\* d.update(data), data iterated in its own order
RECURSIVE DictUpdate(_, _)
DictUpdate(d, data) ==
    IF data = <<>> THEN d
    ELSE DictUpdate(DictSet(d, Head(data)), Tail(data))

\* d.pop(f) for a key that is present
DictPop(d, f) == SelectSeq(d, LAMBDA x : x.field # f)

RECURSIVE SumNotes(_)
SumNotes(d) == IF d = <<>> THEN 0 ELSE Len(Head(d).notes) + SumNotes(Tail(d))


TotalFields(ov, st, mi) == Len(ov) + Len(st) + Len(mi)
TotalNotes(ov, st, mi) == SumNotes(ov) + SumNotes(st) + SumNotes(mi)

\* the dict behind a panel name
Panel(p) ==
    CASE p = "Overall" -> D_overall
      [] p = "Structure" -> D_structr
      [] p = "Metainformation" -> D_metainf

(***************************************************************************)
(* Arguments of update_overall / update_structure / update_metainfo: data  *)
(* is a field name (str) or a {field: entry} mapping.                      *)
(***************************************************************************)
StrData(f) == [isstr |-> TRUE, field |-> f, items |-> <<>>]
MapData(items) == [isstr |-> FALSE, field |-> "", items |-> items]

\* update_overall, lines 259-260: "if value: data = {data: value}"
PairData(data, value) ==
    IF Truthy(value) THEN MapData(<<Item(data.field, value, <<>>)>>) ELSE data

\* _update, lines 279-282 (the new contents of dest)
_updateKeepsNotes(data, dest) ==
    LET items == IF data.isstr
                 THEN <<Item(data.field, null_string, <<>>)>>
                 ELSE data.items
        keep(it) == IF it.field \in Keys(dest)
                    THEN Item(it.field, it.value, Get(dest, it.field).notes)
                    ELSE it
    IN  DictUpdate(dest, [i \in 1..Len(items) |-> keep(items[i])])
_update(data, dest) ==
    IF data.isstr
    THEN DictUpdate(dest, <<Item(data.field, null_string, <<>>)>>)
    ELSE DictUpdate(dest, data.items)

\* _sizes, lines 461-467: the five counters of a card with these dicts
SizesOfForgetsMetainf(ov, st, mi) ==
    [n_ov |-> Len(ov), n_st |-> Len(st), n_mi |-> Len(mi),
     n_ov_st |-> Len(ov) + Len(st),
     n_ov_st_mi |-> Len(ov) + Len(st)]
SizesOf(ov, st, mi) ==
    [n_ov |-> Len(ov), n_st |-> Len(st), n_mi |-> Len(mi),
     n_ov_st |-> Len(ov) + Len(st),
     n_ov_st_mi |-> Len(ov) + Len(st) + Len(mi)]
_sizes(ov, st, mi) ==
    LET z == SizesOf(ov, st, mi)
    IN  /\ n_ov' = z.n_ov
        /\ n_st' = z.n_st
        /\ n_mi' = z.n_mi
        /\ n_ov_st' = z.n_ov_st
        /\ n_ov_st_mi' = z.n_ov_st_mi

\* the three dicts after dict p is replaced by d
SetPanel(p, d) ==
    /\ D_overall' = IF p = "Overall" THEN d ELSE D_overall
    /\ D_structr' = IF p = "Structure" THEN d ELSE D_structr
    /\ D_metainf' = IF p = "Metainformation" THEN d ELSE D_metainf

(***************************************************************************)
(* The record of the last call and of what it returned.                    *)
(***************************************************************************)
\* before: what the targeted dict held for the field when the call was made
NoBefore == "absent"
Before(d, f) ==
    IF f \notin Keys(d) THEN "absent"
    ELSE IF Get(d, f).notes = <<>> THEN "bare"
    ELSE "noted"
Call(op, p, f) ==
    [op |-> op, panel |-> p, field |-> f, raised |-> FALSE, before |-> NoBefore]
\* a call that raised KeyError
Raised(op) ==
    [op |-> op, panel |-> "", field |-> "", raised |-> TRUE, before |-> NoBefore]
NoOut == [kind |-> "None"]

Init ==
    /\ D_overall = <<>>
    /\ D_structr = <<>>
    /\ D_metainf = <<>>
    /\ n_ov = 0 /\ n_st = 0 /\ n_mi = 0 /\ n_ov_st = 0 /\ n_ov_st_mi = 0
    /\ last = Call("__init__", "", "")
    /\ out = NoOut

Fits(p, d) ==
    LET ov == IF p = "Overall" THEN d ELSE D_overall
        st == IF p = "Structure" THEN d ELSE D_structr
        mi == IF p = "Metainformation" THEN d ELSE D_metainf
    IN  /\ TotalFields(ov, st, mi) <= MaxFields
        /\ TotalNotes(ov, st, mi) <= MaxNotes

\* update_<panel>(field): the entry defaults to the blank string
UpdateField(p, f) ==
    LET d == _update(PairData(StrData(f), PyNone), Panel(p))
    IN  /\ Fits(p, d)
        /\ SetPanel(p, d)
        /\ _sizes(D_overall', D_structr', D_metainf')
        /\ last' = [Call("update_field", p, f) EXCEPT
                        !.before = Before(Panel(p), f)]
        /\ out' = NoOut

\* update_<panel>(field, value)
UpdatePair(p, f, v) ==
    LET d == _update(PairData(StrData(f), v), Panel(p))
    IN  /\ Fits(p, d)
        /\ SetPanel(p, d)
        /\ _sizes(D_overall', D_structr', D_metainf')
        /\ last' = [Call("update_pair", p, f) EXCEPT
                        !.before = Before(Panel(p), f)]
        /\ out' = NoOut

\* update_<panel>({field: entry, ...})
UpdateMapping(p, items) ==
    LET d == _update(PairData(MapData(items), PyNone), Panel(p))
    IN  /\ Fits(p, d)
        /\ SetPanel(p, d)
        /\ _sizes(D_overall', D_structr', D_metainf')
        /\ last' = [Call("update_mapping", p, items[1].field) EXCEPT
                        !.before = Before(Panel(p), items[1].field)]
        /\ out' = NoOut

\* remove_<panel>(field), lines 285-306: dest.pop(field) raises KeyError for
\* an absent field, before anything is changed
_removePopsLast(field, dest) == SubSeq(dest, 1, Len(dest) - 1)
_remove(field, dest) == DictPop(dest, field)
Remove(p, f) ==
    /\ IF f \in Keys(Panel(p))
       THEN /\ SetPanel(p, _remove(f, Panel(p)))
            /\ _sizes(D_overall', D_structr', D_metainf')
       ELSE UNCHANGED <<panels, sizes>>
    /\ last' = IF f \in Keys(Panel(p))
               THEN [Call("remove", p, f) EXCEPT !.before = Before(Panel(p), f)]
               ELSE Raised("remove")
    /\ out' = NoOut

\* _add_footnote, lines 341-352, for a field that is present: the entry
\* becomes tuple(list(entry) + [note]) under the same key
_add_footnotePrepends(field, note, dest) ==
    LET e == Get(dest, field)
    IN  DictSet(dest, Item(field, e.value, <<note>> \o e.notes))
_add_footnote(field, note, dest) ==
    LET e == Get(dest, field)
    IN  DictSet(dest, Item(field, e.value, Append(e.notes, note)))

\* add_footnote_<panel>(field, note), lines 323-339
AddFootnotePanel(p, f, note) ==
    /\ IF f \in Keys(Panel(p))
       THEN /\ Fits(p, _add_footnote(f, note, Panel(p)))
            /\ SetPanel(p, _add_footnote(f, note, Panel(p)))
       ELSE UNCHANGED panels
    /\ UNCHANGED sizes
    /\ last' = IF f \in Keys(Panel(p))
               THEN [Call("add_footnote_panel", p, f) EXCEPT
                        !.before = Before(Panel(p), f)]
               ELSE Raised("add_footnote_panel")
    /\ out' = NoOut

\* add_footnote, lines 314-321: the panel the if/elif chain picks ("" when
\* the chain reaches the else branch)
FirstPanelWithLastMatch(f) ==
    IF f \in Keys(D_metainf) THEN "Metainformation"
    ELSE IF f \in Keys(D_structr) THEN "Structure"
    ELSE IF f \in Keys(D_overall) THEN "Overall"
    ELSE ""
FirstPanelWith(f) ==
    IF f \in Keys(D_overall) THEN "Overall"
    ELSE IF f \in Keys(D_structr) THEN "Structure"
    ELSE IF f \in Keys(D_metainf) THEN "Metainformation"
    ELSE ""

\* add_footnote(field, note)
AddFootnote(f, note) ==
    LET p == FirstPanelWith(f)
    IN  /\ IF p # ""
           THEN /\ Fits(p, _add_footnote(f, note, Panel(p)))
                /\ SetPanel(p, _add_footnote(f, note, Panel(p)))
           ELSE UNCHANGED panels
        /\ UNCHANGED sizes
        /\ last' = IF p # ""
                   THEN [Call("add_footnote", p, f) EXCEPT
                            !.before = Before(Panel(p), f)]
                   ELSE Raised("add_footnote")
        /\ out' = NoOut

\* clear, lines 433-441, on one dict
ClearDictDropsNotes(d, value, keep_notes) ==
    [i \in 1..Len(d) |-> Item(d[i].field, value, <<>>)]
ClearDict(d, value, keep_notes) ==
    [i \in 1..Len(d) |->
        IF keep_notes /\ d[i].notes # <<>>
        THEN Item(d[i].field, value, d[i].notes)
        ELSE Item(d[i].field, value, <<>>)]

\* clear(value, keep_notes)
Clear(value, keep_notes) ==
    /\ D_overall' = ClearDict(D_overall, value, keep_notes)
    /\ D_structr' = ClearDict(D_structr, value, keep_notes)
    /\ D_metainf' = ClearDict(D_metainf, value, keep_notes)
    /\ UNCHANGED sizes
    /\ last' = Call(IF keep_notes THEN "clear_keep_notes" ELSE "clear", "", "")
    /\ out' = NoOut

(***************************************************************************)
(* to_dict / to_json (lines 562-576) and read_json (lines 787-799).  A     *)
(* JSON document is the three panels as ordered lists of (key, value); a   *)
(* bare entry is a JSON scalar, a tuple/list entry a JSON array of the     *)
(* value followed by the footnote texts.                                   *)
(***************************************************************************)
JsonOfEntry(it) ==
    IF it.notes = <<>>
    THEN [array |-> FALSE, elems |-> <<it.value>>]
    ELSE [array |-> TRUE,
          elems |-> <<it.value>> \o [i \in 1..Len(it.notes) |-> PyStr(it.notes[i])]]
\* json.dumps writes the keys of a dict in the dict's order
JsonOfDictSortKeys(d) ==
    LET rank(k) == CHOOSE i \in 1..Len(FieldOrder) : FieldOrder[i] = k
        pos(i) == 1 + Cardinality({j \in 1..Len(d) : rank(d[j].field) < rank(d[i].field)})
    IN  [k \in 1..Len(d) |->
            LET i == CHOOSE i \in 1..Len(d) : pos(i) = k
            IN  [key |-> d[i].field, val |-> JsonOfEntry(d[i])]]
JsonOfDict(d) ==
    [i \in 1..Len(d) |-> [key |-> d[i].field, val |-> JsonOfEntry(d[i])]]
to_json(ov, st, mi) ==
    [overall |-> JsonOfDict(ov), structure |-> JsonOfDict(st),
     metainfo |-> JsonOfDict(mi)]

\* json.loads: a scalar stays a bare value, an array becomes a list, which
\* the card reads as (value, footnote, ...)
EntryOfJsonValueOnly(kv) == Item(kv.key, kv.val.elems[1], <<>>)
EntryOfJson(kv) ==
    IF kv.val.array
    THEN Item(kv.key, kv.val.elems[1],
              [i \in 1..(Len(kv.val.elems) - 1) |-> kv.val.elems[i + 1].s])
    ELSE Item(kv.key, kv.val.elems[1], <<>>)
DictOfJson(j) == [i \in 1..Len(j) |-> EntryOfJson(j[i])]

\* read_json: an uninitialized card updated with the three mappings
read_json(doc) ==
    [overall |-> _update(PairData(MapData(DictOfJson(doc.overall)), PyNone), <<>>),
     structr |-> _update(PairData(MapData(DictOfJson(doc.structure)), PyNone), <<>>),
     metainf |-> _update(PairData(MapData(DictOfJson(doc.metainfo)), PyNone), <<>>)]

\* card = read_json(card.to_json(), graph)
ReadJson ==
    LET c == read_json(to_json(D_overall, D_structr, D_metainf))
    IN  /\ D_overall' = c.overall
        /\ D_structr' = c.structr
        /\ D_metainf' = c.metainf
        /\ _sizes(D_overall', D_structr', D_metainf')
        /\ last' = Call("read_json", "", "")
        /\ out' = NoOut

(***************************************************************************)
(* _align_dicts_ordered (lines 802-842) and align_cards (lines 845-855).   *)
(***************************************************************************)
\* keys of the aligned panels, listed in Python's string order
AlignKeyOrder == <<"Access", "Degree", "Name">>
AlignKeys == {AlignKeyOrder[i] : i \in 1..Len(AlignKeyOrder)}
\* Python's order on the field names
StrRank(k) == CHOOSE i \in 1..Len(AlignKeyOrder) : AlignKeyOrder[i] = k

\* twice the sort key idx of lines 818-823 (indices are 0-based)
AlignIdx2(D1, D2, k) ==
    IF k \notin Keys(D1) THEN 4 * (IndexOf(D2, k) - 1)
    ELSE IF k \notin Keys(D2) THEN 4 * (IndexOf(D1, k) - 1)
    ELSE 2 * ((IndexOf(D1, k) - 1) + (IndexOf(D2, k) - 1)) - 1

\* L.sort() on the (idx, k) tuples
TupleLess(D1, D2, a, b) ==
    \/ AlignIdx2(D1, D2, a) < AlignIdx2(D1, D2, b)
    \/ /\ AlignIdx2(D1, D2, a) = AlignIdx2(D1, D2, b)
       /\ StrRank(a) < StrRank(b)
RECURSIVE SortedKeys(_, _, _)
SortedKeys(D1, D2, S) ==
    IF S = {} THEN <<>>
    ELSE LET m == CHOOSE a \in S : \A b \in S \ {a} : TupleLess(D1, D2, a, b)
         IN  <<m>> \o SortedKeys(D1, D2, S \ {m})

AlignedDict(D, L, value) ==
    [i \in 1..Len(L) |->
        IF L[i] \in Keys(D) THEN Get(D, L[i]) ELSE Item(L[i], value, <<>>)]
_align_dicts_ordered(D1, D2, value) ==
    LET L == SortedKeys(D1, D2, Keys(D1) \cup Keys(D2))
    IN  <<AlignedDict(D1, L, value), AlignedDict(D2, L, value)>>

CardOut(ov, st, mi, z) ==
    [kind |-> "card", overall |-> ov, structr |-> st, metainf |-> mi, sizes |-> z]

\* the other card handed to align_cards: an uninitialized card after one
\* update call
Bare(f) == Item(f, PyStr("x"), <<>>)
OtherCards ==
    {[overall |-> <<Bare("Name")>>, structr |-> <<>>, metainf |-> <<>>],
     [overall |-> <<>>, structr |-> <<Bare("Degree")>>, metainf |-> <<>>],
     [overall |-> <<>>, structr |-> <<>>, metainf |-> <<Bare("Name")>>],
     [overall |-> <<Bare("Name"), Bare("Degree")>>, structr |-> <<>>,
      metainf |-> <<>>]}

\* align_cards(C1, C2) with this card as C1 (first = TRUE) or as C2
AlignCards(o, first) ==
    LET ov == IF first THEN _align_dicts_ordered(D_overall, o.overall, null_string)
              ELSE _align_dicts_ordered(o.overall, D_overall, null_string)
        st == IF first THEN _align_dicts_ordered(D_structr, o.structr, null_string)
              ELSE _align_dicts_ordered(o.structr, D_structr, null_string)
        mi == IF first THEN _align_dicts_ordered(D_metainf, o.metainf, null_string)
              ELSE _align_dicts_ordered(o.metainf, D_metainf, null_string)
        me == IF first THEN 1 ELSE 2
        it == IF first THEN 2 ELSE 1
    IN  /\ TotalFields(ov[me], st[me], mi[me]) <= MaxFields
        /\ D_overall' = ov[me]
        /\ D_structr' = st[me]
        /\ D_metainf' = mi[me]
        /\ _sizes(D_overall', D_structr', D_metainf')
        /\ last' = Call("align_cards", "", "")
        /\ out' = CardOut(ov[it], st[it], mi[it],
                          SizesOf(ov[it], st[it], mi[it]))

\* mappings passed to update: one entry, bare or with a footnote, or two
\* bare entries
Noted(f) == Item(f, PyStr("x"), <<"n1">>)
Mappings ==
    {<<Bare(f)>> : f \in Fields}
      \cup {<<Noted(f)>> : f \in Fields}
      \cup {<<Bare(fg[1]), Bare(fg[2])>> :
               fg \in {x \in Fields \X Fields : x[1] # x[2]}}

\* blank values passed to clear
ClearValues == {PyStr(""), PyStr("x")}

Next ==
    \/ \E p \in PanelNames, f \in Fields : UpdateField(p, f)
    \/ \E p \in PanelNames, f \in Fields, v \in Values : UpdatePair(p, f, v)
    \/ \E p \in PanelNames, m \in Mappings : UpdateMapping(p, m)
    \/ \E p \in PanelNames, f \in Fields : Remove(p, f)
    \/ \E f \in Fields, n \in Notes : AddFootnote(f, n)
    \/ \E p \in PanelNames, f \in Fields, n \in Notes : AddFootnotePanel(p, f, n)
    \/ \E v \in ClearValues, k \in BOOLEAN : Clear(v, k)
    \/ ReadJson
    \/ \E o \in OtherCards, first \in BOOLEAN : AlignCards(o, first)

Spec == Init /\ [][Next]_vars

(***************************************************************************)
(* Rendering.  _join_dicts (lines 385-394) and _series (lines 416-426)     *)
(* give the rows every renderer numbers: one row per key of the joined     *)
(* dict, with the value and the footnotes (None, here <<>>, without any).  *)
(***************************************************************************)
_join_dicts(ov, st, mi) == DictUpdate(DictUpdate(DictUpdate(<<>>, ov), st), mi)
_series(ov, st, mi) == _join_dicts(ov, st, mi)

\* the three dicts of the card after _join_dicts and _series: this_dict is a
\* new dict (line 390), the loop of _series (lines 420-422) assigns to it only
_join_dictsIntoOverall(ov, st, mi) == <<DictUpdate(DictUpdate(ov, st), mi), st, mi>>
_join_dictsPanels(ov, st, mi) == <<ov, st, mi>>

\* n2num: the dict from footnote text to number, in insertion order
InN2num(n2num, n) == \E i \in 1..Len(n2num) : n2num[i].note = n
NumOf(n2num, n) == n2num[CHOOSE i \in 1..Len(n2num) : n2num[i].note = n].num

\* __repr__, lines 367-374: the marks of one row ("^1^2" as <<1, 2>>)
RECURSIVE ReprMarksNoReuse(_, _, _, _)
ReprMarksNoReuse(note, marks, num, n2num) ==
    IF note = <<>> THEN [marks |-> marks, num |-> num, n2num |-> n2num]
    ELSE ReprMarksNoReuse(Tail(note), Append(marks, num), num + 1,
                          Append(n2num, [note |-> Head(note), num |-> num]))
RECURSIVE ReprMarks(_, _, _, _)
ReprMarks(note, marks, num, n2num) ==
    IF note = <<>> THEN [marks |-> marks, num |-> num, n2num |-> n2num]
    ELSE IF InN2num(n2num, Head(note))
    THEN ReprMarks(Tail(note), Append(marks, NumOf(n2num, Head(note))), num, n2num)
    ELSE ReprMarks(Tail(note), Append(marks, num), num + 1,
                   Append(n2num, [note |-> Head(note), num |-> num]))

\* __repr__, lines 363-375: the loop over the rows
RECURSIVE ReprRows(_, _, _, _)
ReprRows(rows, new_fields, num, n2num) ==
    IF rows = <<>> THEN [new_fields |-> new_fields, n2num |-> n2num]
    ELSE IF Head(rows).notes = <<>>
    THEN ReprRows(Tail(rows),
                  Append(new_fields, [field |-> Head(rows).field, marks |-> <<>>]),
                  num, n2num)
    ELSE LET m == ReprMarks(Head(rows).notes, <<>>, num, n2num)
         IN  ReprRows(Tail(rows),
                      Append(new_fields,
                             [field |-> Head(rows).field, marks |-> m.marks]),
                      m.num, m.n2num)

\* __repr__, lines 354-383: the labels with their marks, the values, and
\* the legend "^num: text" in the order of n2num.items()
ReprBase == 1
__repr__(ov, st, mi) ==
    LET s == _series(ov, st, mi)
        r == ReprRows(s, <<>>, ReprBase, <<>>)
    IN  [kind |-> "text", rows |-> r.new_fields,
         values |-> [i \in 1..Len(s) |-> s[i].value],
         legend |-> r.n2num]

(***************************************************************************)
(* Texts.  A text is a sequence of characters; Chars gives the characters  *)
(* of the strings that hold markup characters, and every other string of   *)
(* the model ("Name", "x", ...) is one symbol that is no markup character. *)
(***************************************************************************)
TexTexts ==
    {"a", "&", "%", "$", "#", "_", "{", "}", "~", "^", "\\", "<", ">",
     "a&b", "\\&", "{}", "~^", "<a>", "$_#%"}
Chars(s) ==
    CASE s = "a&b"  -> <<"a", "&", "b">>
      [] s = "\\&"  -> <<"\\", "&">>
      [] s = "{}"   -> <<"{", "}">>
      [] s = "~^"   -> <<"~", "^">>
      [] s = "<a>"  -> <<"<", "a", ">">>
      [] s = "$_#%" -> <<"$", "_", "#", "%">>
      [] s = ""     -> <<>>
      [] OTHER      -> <<s>>

\* format_helpers.tex_escape, lines 19-32: the conv dict
ConvKeys == {"&", "%", "$", "#", "_", "{", "}", "~", "^", "\\", "<", ">"}
conv(c) ==
    CASE c = "&"  -> <<"\\", "&">>
      [] c = "%"  -> <<"\\", "%">>
      [] c = "$"  -> <<"\\", "$">>
      [] c = "#"  -> <<"\\", "#">>
      [] c = "_"  -> <<"\\", "_">>
      [] c = "{"  -> <<"\\", "{">>
      [] c = "}"  -> <<"\\", "}">>
      [] c = "~"  -> <<"\\", "t", "e", "x", "t", "a", "s", "c", "i", "i",
                       "t", "i", "l", "d", "e", "{", "}">>
      [] c = "^"  -> <<"\\", "^", "{", "}">>
      [] c = "\\" -> <<"\\", "t", "e", "x", "t", "b", "a", "c", "k", "s",
                       "l", "a", "s", "h", "{", "}">>
      [] c = "<"  -> <<"\\", "t", "e", "x", "t", "l", "e", "s", "s", "{", "}">>
      [] c = ">"  -> <<"\\", "t", "e", "x", "t", "g", "r", "e", "a", "t",
                       "e", "r", "{", "}">>

\* regex.sub, lines 36-37: one pass from left to right; every key is a
\* single character, so each character is matched at most once and the
\* replacement is not scanned again
RECURSIVE RegexSub(_)
RegexSub(cs) ==
    IF cs = <<>> THEN <<>>
    ELSE (IF Head(cs) \in ConvKeys THEN conv(Head(cs)) ELSE <<Head(cs)>>)
         \o RegexSub(Tail(cs))

\* str(text), line 35
PyStrOf(v) ==
    CASE v.type = "str"      -> Chars(v.s)
      [] v.type = "NoneType" -> <<"None">>
      [] OTHER               -> <<>>
\* an escaped text
TexStr(cs) == [type |-> "tex", chars |-> cs]
\* format_helpers.tex_escape, lines 13-37: a number is returned as it is
tex_escape(text) ==
    IF text.type \in {"int", "float", "NaN"} THEN text
    ELSE TexStr(RegexSub(PyStrOf(text)))

\* to_latex, lines 487-494: the marks of one row; a first occurrence is a
\* \tablefootnote with \label{foot<num>} and the text, a repeat a \ref
RECURSIVE LatexMarks(_, _, _, _)
LatexMarks(note, marks, num, n2num) ==
    IF note = <<>> THEN [marks |-> marks, num |-> num, n2num |-> n2num]
    ELSE IF InN2num(n2num, Head(note))
    THEN LatexMarks(Tail(note),
                    Append(marks, [cmd |-> "ref", num |-> NumOf(n2num, Head(note)),
                                   text |-> ""]),
                    num, n2num)
    ELSE LatexMarks(Tail(note),
                    Append(marks, [cmd |-> "tablefootnote", num |-> num,
                                   text |-> Head(note)]),
                    num + 1,
                    Append(n2num, [note |-> Head(note), num |-> num]))

\* to_latex, lines 483-496
RECURSIVE LatexRows(_, _, _, _)
LatexRows(rows, new_fields, num, n2num) ==
    IF rows = <<>> THEN [new_fields |-> new_fields, n2num |-> n2num]
    ELSE IF Head(rows).notes = <<>>
    THEN LatexRows(Tail(rows),
                   Append(new_fields, [field |-> Head(rows).field, marks |-> <<>>]),
                   num, n2num)
    ELSE LET m == LatexMarks(Head(rows).notes, <<>>, num, n2num)
         IN  LatexRows(Tail(rows),
                       Append(new_fields,
                              [field |-> Head(rows).field, marks |-> m.marks]),
                       m.num, m.n2num)

\* to_latex, lines 469-510: the labels with their footnote commands, and
\* the values after s[0].apply(tex_escape), line 504
LatexBase == 0
to_latex(ov, st, mi) ==
    LET s == _series(ov, st, mi)
        r == LatexRows(s, <<>>, LatexBase, <<>>)
    IN  [kind |-> "latex", rows |-> r.new_fields,
         values |-> [i \in 1..Len(s) |-> tex_escape(s[i].value)],
         legend |-> <<>>]

\* the decimal digits of a number, and Python's order on the strings f"{num}"
RECURSIVE Digits(_)
Digits(n) == IF n < 10 THEN <<n>> ELSE Append(Digits(n \div 10), n % 10)
RECURSIVE SeqLess(_, _)
SeqLess(a, b) ==
    IF a = <<>> THEN b # <<>>
    ELSE IF b = <<>> THEN FALSE
    ELSE IF Head(a) # Head(b) THEN Head(a) < Head(b)
    ELSE SeqLess(Tail(a), Tail(b))
StrNumLess(a, b) == SeqLess(Digits(a), Digits(b))

\* sorted(marks), line 534, on the strings f"{num}"
RECURSIVE InsertMark(_, _)
InsertMark(sorted, m) ==
    IF sorted = <<>> THEN <<m>>
    ELSE IF StrNumLess(m, Head(sorted)) THEN <<m>> \o sorted
    ELSE <<Head(sorted)>> \o InsertMark(Tail(sorted), m)
RECURSIVE SortedMarks(_)
SortedMarksUnsorted(marks) == marks
SortedMarks(marks) ==
    IF marks = <<>> THEN <<>>
    ELSE InsertMark(SortedMarks(SubSeq(marks, 1, Len(marks) - 1)),
                    marks[Len(marks)])

\* to_excel, lines 526-533: the marks of one row
RECURSIVE ExcelMarks(_, _, _, _)
ExcelMarks(note, marks, num, n2num) ==
    IF note = <<>> THEN [marks |-> marks, num |-> num, n2num |-> n2num]
    ELSE IF InN2num(n2num, Head(note))
    THEN ExcelMarks(Tail(note), Append(marks, NumOf(n2num, Head(note))), num, n2num)
    ELSE ExcelMarks(Tail(note), Append(marks, num), num + 1,
                    Append(n2num, [note |-> Head(note), num |-> num]))

\* to_excel, lines 522-535: the label of a row is "field (m1,m2)" with the
\* marks sorted
RECURSIVE ExcelRows(_, _, _, _)
ExcelRows(rows, new_fields, num, n2num) ==
    IF rows = <<>> THEN [new_fields |-> new_fields, n2num |-> n2num]
    ELSE IF Head(rows).notes = <<>>
    THEN ExcelRows(Tail(rows),
                   Append(new_fields, [field |-> Head(rows).field, marks |-> <<>>]),
                   num, n2num)
    ELSE LET m == ExcelMarks(Head(rows).notes, <<>>, num, n2num)
         IN  ExcelRows(Tail(rows),
                       Append(new_fields,
                              [field |-> Head(rows).field,
                               marks |-> SortedMarks(m.marks)]),
                       m.num, m.n2num)

\* worksheet.conditional_format(first_row, first_col, last_row, last_col,
\* {..., "format": workbook.add_format(...)}): a cell range and the sides
\* of its border format
conditional_format(first_row, first_col, last_row, last_col, format) ==
    [first_row |-> first_row, first_col |-> first_col,
     last_row |-> last_row, last_col |-> last_col, format |-> format]

\* The middle run reaches over both caps.
draw_frame_borderOverCaps(first_row, first_col, rows_count, cols_count) ==
    IF rows_count = 1 /\ cols_count > 1
    THEN << conditional_format(first_row, first_col, first_row, first_col,
                               {"top", "left", "bottom"}),
            conditional_format(first_row, first_col,
                               first_row, first_col + cols_count - 1,
                               {"top", "bottom"}),
            conditional_format(first_row, first_col + cols_count - 1,
                               first_row, first_col + cols_count - 1,
                               {"top", "right", "bottom"}) >>
    ELSE << conditional_format(first_row, first_col,
                               first_row + rows_count - 1,
                               first_col + cols_count - 1,
                               {"top", "bottom", "left", "right"}) >>
draw_frame_border(first_row, first_col, rows_count, cols_count) ==
    IF cols_count = 1 /\ rows_count = 1
    THEN \* whole cell
         << conditional_format(first_row, first_col, first_row, first_col,
                               {"top", "bottom", "left", "right"}) >>
    ELSE IF rows_count = 1
    THEN \* left cap, top and bottom sides, right cap
         << conditional_format(first_row, first_col, first_row, first_col,
                               {"top", "left", "bottom"}),
            conditional_format(first_row, first_col + 1,
                               first_row, first_col + cols_count - 2,
                               {"top", "bottom"}),
            conditional_format(first_row, first_col + cols_count - 1,
                               first_row, first_col + cols_count - 1,
                               {"top", "right", "bottom"}) >>
    ELSE IF cols_count = 1
    THEN \* top cap, left and right sides, bottom cap
         << conditional_format(first_row, first_col, first_row, first_col,
                               {"top", "left", "right"}),
            conditional_format(first_row + 1, first_col,
                               first_row + rows_count - 2, first_col,
                               {"left", "right"}),
            conditional_format(first_row + rows_count - 1, first_col,
                               first_row + rows_count - 1, first_col,
                               {"bottom", "left", "right"}) >>
    ELSE \* four corners, then top, left, bottom and right edges
         << conditional_format(first_row, first_col, first_row, first_col,
                               {"top", "left"}),
            conditional_format(first_row, first_col + cols_count - 1,
                               first_row, first_col + cols_count - 1,
                               {"top", "right"}),
            conditional_format(first_row + rows_count - 1, first_col,
                               first_row + rows_count - 1, first_col,
                               {"bottom", "left"}),
            conditional_format(first_row + rows_count - 1,
                               first_col + cols_count - 1,
                               first_row + rows_count - 1,
                               first_col + cols_count - 1,
                               {"bottom", "right"}),
            conditional_format(first_row, first_col + 1,
                               first_row, first_col + cols_count - 2,
                               {"top"}),
            conditional_format(first_row + 1, first_col,
                               first_row + rows_count - 2, first_col,
                               {"left"}),
            conditional_format(first_row + rows_count - 1, first_col + 1,
                               first_row + rows_count - 1,
                               first_col + cols_count - 2,
                               {"bottom"}),
            conditional_format(first_row + 1, first_col + cols_count - 1,
                               first_row + rows_count - 2,
                               first_col + cols_count - 1,
                               {"right"}) >>

\* to_excel, lines 512-560: the rows, one legend row "num: text" per entry
\* of n2num, and the frames of the three panels (lines 556-558)
ExcelBase == 1
to_excel(ov, st, mi) ==
    LET s == _series(ov, st, mi)
        r == ExcelRows(s, <<>>, ExcelBase, <<>>)
        z == SizesOf(ov, st, mi)
    IN  [kind |-> "excel", rows |-> r.new_fields,
         values |-> [i \in 1..Len(s) |-> s[i].value],
         legend |-> r.n2num,
         frames |-> <<draw_frame_border(0, 0, z.n_ov, 2),
                      draw_frame_border(z.n_ov, 0, z.n_st, 2),
                      draw_frame_border(z.n_ov_st, 0, z.n_mi, 2)>>]

\* print(card), card.to_latex(), card.to_excel(filename): each render reads
\* the card through _join_dicts, which recomputes the sizes
Repr ==
    /\ D_overall' = _join_dictsPanels(D_overall, D_structr, D_metainf)[1]
    /\ D_structr' = _join_dictsPanels(D_overall, D_structr, D_metainf)[2]
    /\ D_metainf' = _join_dictsPanels(D_overall, D_structr, D_metainf)[3]
    /\ _sizes(D_overall, D_structr, D_metainf)
    /\ last' = Call("__repr__", "", "")
    /\ out' = __repr__(D_overall, D_structr, D_metainf)

ToLatex ==
    /\ D_overall' = _join_dictsPanels(D_overall, D_structr, D_metainf)[1]
    /\ D_structr' = _join_dictsPanels(D_overall, D_structr, D_metainf)[2]
    /\ D_metainf' = _join_dictsPanels(D_overall, D_structr, D_metainf)[3]
    /\ _sizes(D_overall, D_structr, D_metainf)
    /\ last' = Call("to_latex", "", "")
    /\ out' = to_latex(D_overall, D_structr, D_metainf)

ToExcel ==
    /\ D_overall' = _join_dictsPanels(D_overall, D_structr, D_metainf)[1]
    /\ D_structr' = _join_dictsPanels(D_overall, D_structr, D_metainf)[2]
    /\ D_metainf' = _join_dictsPanels(D_overall, D_structr, D_metainf)[3]
    /\ _sizes(D_overall, D_structr, D_metainf)
    /\ last' = Call("to_excel", "", "")
    /\ out' = to_excel(D_overall, D_structr, D_metainf)

(***************************************************************************)
(* The renderers applied to the cards of a bounded set.                    *)
(***************************************************************************)
\* largest number of fields of a rendered card
MaxRenderFields == 2
\* largest number of footnotes of a rendered card
MaxRenderNotes == 3

NoteSeqs == UNION {[1..k -> Notes] : k \in 0..MaxRenderNotes}
RenderItems == {Item(f, PyStr("x"), ns) : f \in Fields, ns \in NoteSeqs}
RenderDicts ==
    UNION {{d \in [1..k -> RenderItems] :
               \A i, j \in 1..k : i # j => d[i].field # d[j].field} :
           k \in 0..MaxRenderFields}

InitRender ==
    /\ D_overall \in {d \in RenderDicts : SumNotes(d) <= MaxRenderNotes}
    /\ D_structr \in {d \in RenderDicts :
                        /\ Len(D_overall) + Len(d) <= MaxRenderFields
                        /\ SumNotes(D_overall) + SumNotes(d) <= MaxRenderNotes}
    /\ D_metainf \in {d \in RenderDicts :
                        /\ TotalFields(D_overall, D_structr, d) <= MaxRenderFields
                        /\ TotalNotes(D_overall, D_structr, d) <= MaxRenderNotes}
    /\ n_ov = Len(D_overall)
    /\ n_st = Len(D_structr)
    /\ n_mi = Len(D_metainf)
    /\ n_ov_st = Len(D_overall) + Len(D_structr)
    /\ n_ov_st_mi = Len(D_overall) + Len(D_structr) + Len(D_metainf)
    /\ last = Call("__init__", "", "")
    /\ out = NoOut

NextRender ==
    \/ Repr
    \/ ToLatex
    \/ ToExcel

SpecRender == InitRender /\ [][NextRender]_vars

(***************************************************************************)
(* to_frame (lines 443-459) and NetworkMultiCard (lines 583-682).  A frame *)
(* is its set of columns and its rows in order.  pandas builds a frame     *)
(* without columns from an empty list of rows (pd.DataFrame([])); a cell   *)
(* an outer merge has no value for is NaN.                                 *)
(***************************************************************************)
PyNaN == [type |-> "NaN", s |-> "", n |-> 0]

\* the Note cell of to_frame: "" for a bare entry, va[1:] for a tuple/list
NoteCell(it) ==
    IF it.notes = <<>> THEN [type |-> "str", items |-> <<>>]
    ELSE [type |-> "tuple", items |-> it.notes]
NaNCell == [type |-> "NaN", items |-> <<>>]

\* lines 452-458: the rows of one panel
PanelRows(n, d) ==
    [i \in 1..Len(d) |->
        [Panel |-> n, Field |-> d[i].field, Value |-> d[i].value,
         Note |-> NoteCell(d[i])]]

to_frameSkipsMetainf(ov, st, mi) ==
    LET L == PanelRows(_panel_names[1], ov) \o PanelRows(_panel_names[2], st)
    IN  [columns |-> IF L = <<>> THEN {} ELSE {"Panel", "Field", "Value", "Note"},
         rows |-> L]
to_frame(ov, st, mi) ==
    LET L == PanelRows(_panel_names[1], ov) \o PanelRows(_panel_names[2], st)
                \o PanelRows(_panel_names[3], mi)
    IN  [columns |-> IF L = <<>> THEN {} ELSE {"Panel", "Field", "Value", "Note"},
         rows |-> L]

\* df = card.to_frame()
ToFrame ==
    /\ UNCHANGED <<panels, sizes>>
    /\ last' = Call("to_frame", "", "")
    /\ out' = [kind |-> "frame",
               frame |-> to_frame(D_overall, D_structr, D_metainf)]

\* doc = card.to_json()
ToJson ==
    /\ UNCHANGED <<panels, sizes>>
    /\ last' = Call("to_json", "", "")
    /\ out' = [kind |-> "json", doc |-> to_json(D_overall, D_structr, D_metainf)]

\* the rows of the multicard's frame D: the two key columns, and one Value_i
\* and one Note_i cell per card merged so far
HasKey(rows, r) ==
    \E j \in 1..Len(rows) : rows[j].Panel = r.Panel /\ rows[j].Field = r.Field
RowOfKey(rows, r) ==
    rows[CHOOSE j \in 1..Len(rows) :
            rows[j].Panel = r.Panel /\ rows[j].Field = r.Field]

\* _merge_onto, line 607: pd.merge(self.D, frame, how='outer', on=[Panel,
\* Field]) of pandas 1.x, which keeps the keys in order of first appearance:
\* the rows of self.D in their order, then the rows only frame has, in its
\* order.  i is the number of cards merged before.
_merge_ontoNewFirst(D, frame, i) ==
    LET both == [j \in 1..Len(D) |->
                    IF HasKey(frame.rows, D[j])
                    THEN [D[j] EXCEPT
                            !.Values = Append(@, RowOfKey(frame.rows, D[j]).Value),
                            !.Notes = Append(@, RowOfKey(frame.rows, D[j]).Note)]
                    ELSE [D[j] EXCEPT !.Values = Append(@, PyNaN),
                                      !.Notes = Append(@, NaNCell)]]
        new == SelectSeq(frame.rows, LAMBDA r : ~HasKey(D, r))
        right == [j \in 1..Len(new) |->
                    [Panel |-> new[j].Panel, Field |-> new[j].Field,
                     Values |-> [k \in 1..i |-> PyNaN] \o <<new[j].Value>>,
                     Notes |-> [k \in 1..i |-> NaNCell] \o <<new[j].Note>>]]
    IN  right \o both
_merge_onto(D, frame, i) ==
    LET both == [j \in 1..Len(D) |->
                    IF HasKey(frame.rows, D[j])
                    THEN [D[j] EXCEPT
                            !.Values = Append(@, RowOfKey(frame.rows, D[j]).Value),
                            !.Notes = Append(@, RowOfKey(frame.rows, D[j]).Note)]
                    ELSE [D[j] EXCEPT !.Values = Append(@, PyNaN),
                                      !.Notes = Append(@, NaNCell)]]
        new == SelectSeq(frame.rows, LAMBDA r : ~HasKey(D, r))
        right == [j \in 1..Len(new) |->
                    [Panel |-> new[j].Panel, Field |-> new[j].Field,
                     Values |-> [k \in 1..i |-> PyNaN] \o <<new[j].Value>>,
                     Notes |-> [k \in 1..i |-> NaNCell] \o <<new[j].Note>>]]
    IN  both \o right

\* __init__, lines 590-595: the loop over the cards; a frame without the key
\* columns makes pd.merge raise KeyError
RECURSIVE MergeCards(_, _, _)
MergeCards(D, cards, i) ==
    IF cards = <<>> THEN [raised |-> FALSE, D |-> D]
    ELSE LET this_D == to_frame(Head(cards).overall, Head(cards).structr,
                                Head(cards).metainf)
         IN  IF ~({"Panel", "Field"} \subseteq this_D.columns)
             THEN [raised |-> TRUE, D |-> <<>>]
             ELSE MergeCards(_merge_onto(D, this_D, i), Tail(cards), i + 1)

\* _merge_all_notes, lines 609-617: the Note_i cells of a row become one set
\* of footnote texts (NaN filled with "", "" removed)
_merge_all_notes(D) ==
    [j \in 1..Len(D) |->
        [Panel |-> D[j].Panel, Field |-> D[j].Field, Values |-> D[j].Values,
         Note |-> UNION {{D[j].Notes[k].items[m] :
                            m \in 1..Len(D[j].Notes[k].items)} :
                         k \in 1..Len(D[j].Notes)}]]

\* lines 599-602: the rows of each panel, the panels in the fixed order
GroupByPanel(D) ==
    SelectSeq(D, LAMBDA r : r.Panel = "Overall")
        \o SelectSeq(D, LAMBDA r : r.Panel = "Structure")
        \o SelectSeq(D, LAMBDA r : r.Panel = "Metainformation")

\* NetworkMultiCard(cards), lines 586-602
NetworkMultiCard(cards) ==
    LET m == MergeCards(<<>>, cards, 0)
    IN  IF m.raised THEN [kind |-> "KeyError"]
        ELSE [kind |-> "multicard", num_networks |-> Len(cards),
              D |-> GroupByPanel(_merge_all_notes(m.D))]

\* __repr__ line 630, to_latex line 693: the frame the renderers show, NaN
\* filled with the blank string
show_frame(D) ==
    [j \in 1..Len(D) |->
        [D[j] EXCEPT !.Values =
            [k \in 1..Len(@) |-> IF @[k] = PyNaN THEN null_string ELSE @[k]]]]

\* this card as an input of NetworkMultiCard
ThisCard == [overall |-> D_overall, structr |-> D_structr, metainf |-> D_metainf]

\* mc = NetworkMultiCard(cards); every card is read through to_frame
\* out remembers the cards, the rows at construction (D0), and whether every
\* swap_two_rows since has named two rows of one panel
MakeMultiCard(cards) ==
    /\ UNCHANGED <<panels, sizes>>
    /\ last' = IF NetworkMultiCard(cards).kind = "KeyError"
               THEN Raised("NetworkMultiCard")
               ELSE Call("NetworkMultiCard", "", "")
    /\ out' = [kind |-> NetworkMultiCard(cards).kind,
               mc |-> NetworkMultiCard(cards),
               cards |-> cards, in_panel |-> TRUE,
               D0 |-> IF NetworkMultiCard(cards).kind = "multicard"
                      THEN NetworkMultiCard(cards).D ELSE <<>>]

\* swap_two_rows, lines 676-682: idx is [0, ..., n-1] with the entries at pos1
\* and pos2 exchanged (a negative position counts from the end, a position
\* outside the list raises IndexError), and row i of the new frame is row
\* idx[i] of the old one
PyIndex(pos, n) == IF pos < 0 THEN pos + n ELSE pos
swap_two_rowsShifts(D, pos1, pos2) ==
    LET a == PyIndex(pos1, Len(D)) + 1
        b == PyIndex(pos2, Len(D)) + 1
    IN  [i \in 1..Len(D) |->
            IF i = b THEN D[a]
            ELSE IF a < b /\ a <= i /\ i < b THEN D[i + 1]
            ELSE IF b < a /\ b < i /\ i <= a THEN D[i - 1]
            ELSE D[i]]
swap_two_rows(D, pos1, pos2) ==
    LET a == PyIndex(pos1, Len(D)) + 1
        b == PyIndex(pos2, Len(D)) + 1
    IN  [i \in 1..Len(D) |-> IF i = a THEN D[b] ELSE IF i = b THEN D[a] ELSE D[i]]

SamePanelRows(D, pos1, pos2) ==
    /\ pos1 \in 0..(Len(D) - 1)
    /\ pos2 \in 0..(Len(D) - 1)
    /\ D[pos1 + 1].Panel = D[pos2 + 1].Panel

\* mc.swap_two_rows(pos1, pos2)
SwapTwoRows(pos1, pos2) ==
    /\ out.kind = "multicard"
    /\ UNCHANGED <<panels, sizes>>
    /\ LET n == Len(out.mc.D)
           ok == PyIndex(pos1, n) \in 0..(n - 1) /\ PyIndex(pos2, n) \in 0..(n - 1)
       IN  /\ last' = IF ok THEN Call("swap_two_rows", "", "")
                      ELSE Raised("swap_two_rows")
           /\ out' = IF ok
                     THEN [out EXCEPT
                             !.mc.D = swap_two_rows(out.mc.D, pos1, pos2),
                             !.in_panel = @ /\ SamePanelRows(out.mc.D, pos1, pos2)]
                     ELSE out

(***************************************************************************)
(* The renderers and projections applied to the cards of the bounded set.  *)
(***************************************************************************)
\* the lists of cards a multicard is built from here
ProjectLists == {<<ThisCard>>, <<ThisCard, [overall |-> <<Bare("Name")>>,
                                           structr |-> <<>>, metainf |-> <<>>]>>}

NextProject ==
    \/ Repr
    \/ ToLatex
    \/ ToExcel
    \/ ToFrame
    \/ ToJson
    \/ \E cards \in ProjectLists : MakeMultiCard(cards)

SpecProject == InitRender /\ [][NextProject]_vars

(***************************************************************************)
(* The JSON snapshot taken of, and a card rebuilt from, the cards of a     *)
(* bounded set: at most MaxFields fields holding at most MaxNotes          *)
(* footnotes, the values strings and numbers.                              *)
(***************************************************************************)
JsonNoteSeqs == UNION {[1..k -> Notes] : k \in 0..MaxNotes}
JsonItems == {Item(f, v, ns) : f \in Fields, v \in Values, ns \in JsonNoteSeqs}
JsonDicts ==
    UNION {{d \in [1..k -> JsonItems] :
               \A i, j \in 1..k : i # j => d[i].field # d[j].field} :
           k \in 0..Len(FieldOrder)}

InitJson ==
    /\ D_overall \in {d \in JsonDicts :
                        Len(d) <= MaxFields /\ SumNotes(d) <= MaxNotes}
    /\ D_structr \in {d \in JsonDicts :
                        /\ Len(D_overall) + Len(d) <= MaxFields
                        /\ SumNotes(D_overall) + SumNotes(d) <= MaxNotes}
    /\ D_metainf \in {d \in JsonDicts :
                        /\ TotalFields(D_overall, D_structr, d) <= MaxFields
                        /\ TotalNotes(D_overall, D_structr, d) <= MaxNotes}
    /\ n_ov = Len(D_overall)
    /\ n_st = Len(D_structr)
    /\ n_mi = Len(D_metainf)
    /\ n_ov_st = Len(D_overall) + Len(D_structr)
    /\ n_ov_st_mi = Len(D_overall) + Len(D_structr) + Len(D_metainf)
    /\ last = Call("__init__", "", "")
    /\ out = NoOut

NextJson ==
    \/ ToJson
    \/ ReadJson

SpecJson == InitJson /\ [][NextJson]_vars

(***************************************************************************)
(* Multicards built from the cards of a bounded set and from the other     *)
(* cards, and their rows swapped.                                          *)
(***************************************************************************)
\* largest number of fields of a card handed to NetworkMultiCard
MaxMultiFields == 2

MultiItems == {Item(f, PyStr("y"), <<>>) : f \in Fields}
MultiDicts ==
    UNION {{d \in [1..k -> MultiItems] :
               \A i, j \in 1..k : i # j => d[i].field # d[j].field} :
           k \in 0..Len(FieldOrder)}

InitMulti ==
    /\ D_overall \in {d \in MultiDicts : Len(d) <= MaxMultiFields}
    /\ D_structr \in {d \in MultiDicts : Len(D_overall) + Len(d) <= MaxMultiFields}
    /\ D_metainf \in {d \in MultiDicts :
                        TotalFields(D_overall, D_structr, d) <= MaxMultiFields}
    /\ n_ov = Len(D_overall)
    /\ n_st = Len(D_structr)
    /\ n_mi = Len(D_metainf)
    /\ n_ov_st = Len(D_overall) + Len(D_structr)
    /\ n_ov_st_mi = Len(D_overall) + Len(D_structr) + Len(D_metainf)
    /\ last = Call("__init__", "", "")
    /\ out = NoOut

\* the other cards handed to NetworkMultiCard, one with a footnote
MultiOthers ==
    {[overall |-> <<Bare("Name"), Bare("Degree")>>, structr |-> <<>>,
      metainf |-> <<>>],
     [overall |-> <<Noted("Degree")>>, structr |-> <<>>,
      metainf |-> <<Bare("Name")>>],
     [overall |-> <<>>, structr |-> <<Bare("Degree")>>, metainf |-> <<>>]}

\* the lists of cards a multicard is built from
MultiLists ==
    {<<>>, <<ThisCard>>}
        \cup {<<ThisCard, o>> : o \in MultiOthers}
        \cup {<<o, ThisCard>> : o \in MultiOthers}

NextMulti ==
    \/ \E cards \in MultiLists : MakeMultiCard(cards)
    \/ \E pos1, pos2 \in -1..(MaxMultiFields + 2) : SwapTwoRows(pos1, pos2)

SpecMulti == InitMulti /\ [][NextMulti]_vars

(***************************************************************************)
(* The spreadsheet frame (format_helpers.draw_frame_border).  The function *)
(* draws nothing itself: it issues conditional_format calls, each for a    *)
(* cell range and a format naming the bordered sides.  A worksheet is the  *)
(* sequence of the calls it received.                                      *)
(***************************************************************************)
\* largest first_row and first_col of a frame request
MaxFrameOrigin == 1
\* largest rows_count of a frame request
MaxFrameRows == 4
\* largest cols_count of a frame request
MaxFrameCols == 5

\* draw_frame_border on an empty worksheet
DrawFrameBorder ==
    /\ out.kind = "frame_request"
    /\ last' = Call("draw_frame_border", "", "")
    /\ out' = [out EXCEPT !.kind = "worksheet",
                          !.calls = draw_frame_border(out.first_row, out.first_col,
                                                      out.rows_count, out.cols_count)]
    /\ UNCHANGED <<panels, sizes>>

InitFrame ==
    /\ D_overall = <<>>
    /\ D_structr = <<>>
    /\ D_metainf = <<>>
    /\ n_ov = 0
    /\ n_st = 0
    /\ n_mi = 0
    /\ n_ov_st = 0
    /\ n_ov_st_mi = 0
    /\ last = Call("__init__", "", "")
    /\ \E first_row, first_col \in 0..MaxFrameOrigin :
          \E rows_count \in 0..MaxFrameRows : \E cols_count \in 1..MaxFrameCols :
              out = [kind |-> "frame_request", calls |-> <<>>,
                     first_row |-> first_row, first_col |-> first_col,
                     rows_count |-> rows_count, cols_count |-> cols_count]

NextFrame == DrawFrameBorder

SpecFrame == InitFrame /\ [][NextFrame]_vars

(***************************************************************************)
(* The typeset render of the cards whose one entry has a label and a value *)
(* taken from the texts with markup characters.                            *)
(***************************************************************************)
TexValues == {PyStr(t) : t \in TexTexts} \cup {PyInt(0)}
TexItems ==
    {Item(f, v, ns) : f \in TexTexts, v \in TexValues, ns \in {<<>>, <<"n1">>}}

InitTex ==
    /\ \E it \in TexItems : \E p \in 1..3 :
          /\ D_overall = IF p = 1 THEN <<it>> ELSE <<>>
          /\ D_structr = IF p = 2 THEN <<it>> ELSE <<>>
          /\ D_metainf = IF p = 3 THEN <<it>> ELSE <<>>
    /\ n_ov = Len(D_overall)
    /\ n_st = Len(D_structr)
    /\ n_mi = Len(D_metainf)
    /\ n_ov_st = Len(D_overall) + Len(D_structr)
    /\ n_ov_st_mi = Len(D_overall) + Len(D_structr) + Len(D_metainf)
    /\ last = Call("__init__", "", "")
    /\ out = NoOut

NextTex == ToLatex

SpecTex == InitTex /\ [][NextTex]_vars

(***************************************************************************)
(* summarize_distribution (lines 396-414).  The entry of at most five      *)
(* values is the text str(list(...)), kept as its characters; the entry of *)
(* more values is the text f"{mean:g} [{min}, {max}]", kept as the sum and *)
(* the count of the mean, the minimum and the maximum, with one footnote.  *)
(***************************************************************************)
\* largest number of values of a distribution
MaxValues == 6
\* largest value of a distribution
MaxValue == 2

DigitChars == <<"0", "1", "2", "3", "4", "5", "6", "7", "8", "9">>
\* str(n) of a number that is not negative
IntChars(n) == [i \in 1..Len(Digits(n)) |-> DigitChars[Digits(n)[i] + 1]]

\* sorted(values, reverse=True), line 404
RECURSIVE InsertDescending(_, _)
InsertDescending(sorted, v) ==
    IF sorted = <<>> THEN <<v>>
    ELSE IF v > Head(sorted) THEN <<v>> \o sorted
    ELSE <<Head(sorted)>> \o InsertDescending(Tail(sorted), v)
RECURSIVE SortedDescending(_)
SortedDescending(values) ==
    IF values = <<>> THEN <<>>
    ELSE InsertDescending(SortedDescending(SubSeq(values, 1, Len(values) - 1)),
                          values[Len(values)])

\* str(list), line 404: "[v1, v2, ...]"
RECURSIVE JoinedInts(_)
JoinedInts(xs) ==
    IF xs = <<>> THEN <<>>
    ELSE IF Len(xs) = 1 THEN IntChars(xs[1])
    ELSE IntChars(Head(xs)) \o <<",", " ">> \o JoinedInts(Tail(xs))
StrOfList(xs) == <<"[">> \o JoinedInts(xs) \o <<"]">>
\* a text value given by its characters
PyText(cs) == [type |-> "text", chars |-> cs]

RECURSIVE SumOf(_)
SumOf(values) == IF values = <<>> THEN 0 ELSE Head(values) + SumOf(Tail(values))
MinOf(values) == CHOOSE v \in {values[i] : i \in DOMAIN values} :
                     \A i \in DOMAIN values : v <= values[i]
MaxOf(values) == CHOOSE v \in {values[i] : i \in DOMAIN values} :
                     \A i \in DOMAIN values : v >= values[i]
\* f"{np.mean(values):g} [{min(values)}, {max(values)}]", line 408
MeanMinMax(values) ==
    [type |-> "summary", sum |-> SumOf(values), count |-> Len(values),
     min |-> MinOf(values), max |-> MaxOf(values)]
ftext == "Distributions summarized with average [min, max]."

\* summarize_distribution, lines 396-414: the dict {lbl: entry} as its one
\* item; min of no values raises ValueError, caught at line 409
summarize_distribution(values, label) ==
    IF Len(values) <= 5
    THEN Item(label, PyText(StrOfList(SortedDescending(values))), <<>>)
    ELSE IF values = <<>>
    THEN Item(label, null_string, <<>>)
    ELSE Item(label, MeanMinMax(values), <<ftext>>)

\* card.summarize_distribution(values, label)
SummarizeDistribution ==
    /\ out.kind = "values"
    /\ last' = Call("summarize_distribution", "", "")
    /\ out' = [out EXCEPT !.kind = "distribution",
                          !.entry = summarize_distribution(out.values, out.label)]
    /\ UNCHANGED <<panels, sizes>>

DistributionValues == UNION {[1..k -> 0..MaxValue] : k \in 0..MaxValues}

InitDist ==
    /\ D_overall = <<>>
    /\ D_structr = <<>>
    /\ D_metainf = <<>>
    /\ n_ov = 0
    /\ n_st = 0
    /\ n_mi = 0
    /\ n_ov_st = 0
    /\ n_ov_st_mi = 0
    /\ last = Call("__init__", "", "")
    /\ \E values \in DistributionValues : \E label \in {"Degree", "Component size"} :
          out = [kind |-> "values", values |-> values, label |-> label,
                 entry |-> Item(label, null_string, <<>>)]

NextDist == SummarizeDistribution

SpecDist == InitDist /\ [][NextDist]_vars

(***************************************************************************)
(* label_degree (lines 186-207) on the graph of the card, as the step      *)
(* self.update_structure(self.label_degree()) of __init__ (line 80).  A    *)
(* graph has the nodes 1..n and a set of links (u, v); an undirected graph *)
(* holds each link once.                                                   *)
(***************************************************************************)
\* largest number of nodes of a graph
MaxNodes == 6

\* the links a graph of n nodes may have: a path and a self-loop, and the
\* path backwards when the graph is directed
GraphLinks(n, directed) ==
    {<<i, i + 1>> : i \in 1..(n - 1)}
        \cup (IF n >= 1 THEN {<<1, 1>>} ELSE {})
        \cup (IF directed THEN {<<i + 1, i>> : i \in 1..(n - 1)} ELSE {})
Graphs ==
    UNION {{[directed |-> d, n |-> n, edges |-> e] :
               e \in SUBSET GraphLinks(n, d)} :
           n \in 0..MaxNodes, d \in BOOLEAN}

\* graph.in_degree() and graph.degree(), in the order of the nodes; a
\* self-loop counts twice in degree()
in_degree(g) ==
    [v \in 1..g.n |-> Cardinality({e \in g.edges : e[2] = v})]
degree(g) ==
    [v \in 1..g.n |-> Cardinality({e \in g.edges : e[1] = v})
                        + Cardinality({e \in g.edges : e[2] = v})]

\* the outcome of a label function: the {field: entry} dict, or ValueError
Labelled(items) == [raised |-> FALSE, items |-> items]
LabelRaises == [raised |-> TRUE, items |-> <<>>]

\* _label_degree_undirected, lines 193-196
_label_degree_undirected(g) ==
    Labelled(<<summarize_distribution(degree(g), "Degree")>>)

\* "entry, note = field['Degree']", line 205: a tuple (s, ftext) unpacks
\* into its two members, a str into its characters when it has exactly two
\* of them, and anything else raises ValueError
UnpackTwo(it) ==
    IF Len(it.notes) = 1
    THEN [raised |-> FALSE, entry |-> it.value, note |-> it.notes[1]]
    ELSE IF it.notes = <<>> /\ it.value.type = "text" /\ Len(it.value.chars) = 2
    THEN [raised |-> FALSE, entry |-> PyText(<<it.value.chars[1]>>),
          note |-> it.value.chars[2]]
    ELSE [raised |-> TRUE, entry |-> it.value, note |-> ""]

\* _label_degree_directed, lines 198-207
_label_degree_directed(g) ==
    LET field == DictUpdate(<<summarize_distribution(in_degree(g), "Degree (in/out)")>>,
                            <<summarize_distribution(degree(g), "Degree")>>)
        u     == UnpackTwo(Get(field, "Degree"))
    IN  IF u.raised THEN LabelRaises
        ELSE Labelled(DictUpdate(field,
                 <<Item("Degree", u.entry, <<"Undirected.", u.note>>)>>))

\* label_degree, lines 186-191
label_degree(g) ==
    IF g.directed THEN _label_degree_directed(g) ELSE _label_degree_undirected(g)

\* self.update_structure(self.label_degree()), line 80
UpdateStructureLabelDegree ==
    /\ out.kind = "graph"
    /\ IF label_degree(out.graph).raised
       THEN /\ last' = Raised("label_degree")
            /\ out' = [out EXCEPT !.kind = "ValueError"]
            /\ UNCHANGED <<panels, sizes>>
       ELSE /\ last' = Call("label_degree", "Structure", "Degree")
            /\ out' = [out EXCEPT !.kind = "labelled"]
            /\ SetPanel("Structure",
                        _update(MapData(label_degree(out.graph).items), D_structr))
            /\ _sizes(D_overall,
                      _update(MapData(label_degree(out.graph).items), D_structr),
                      D_metainf)

InitDegree ==
    /\ D_overall = <<>>
    /\ D_structr = <<>>
    /\ D_metainf = <<>>
    /\ n_ov = 0
    /\ n_st = 0
    /\ n_mi = 0
    /\ n_ov_st = 0
    /\ n_ov_st_mi = 0
    /\ last = Call("__init__", "", "")
    /\ \E g \in Graphs : out = [kind |-> "graph", graph |-> g]

NextDegree == UpdateStructureLabelDegree

SpecDegree == InitDegree /\ [][NextDegree]_vars

(***************************************************************************)
(* align_cards (lines 845-855) on two cards whose Overall panels hold any  *)
(* keys in any order; the other card is the card in out.                   *)
(***************************************************************************)
\* largest number of keys of a panel of an aligned card
MaxAlignKeys == 3

\* a panel with these keys in this order, every entry with value v
AlignDicts(v) ==
    UNION {{[i \in 1..k |-> Item(ks[i], v, <<>>)] :
               ks \in {x \in [1..k -> AlignKeys] :
                          \A i, j \in 1..k : i # j => x[i] # x[j]}} :
           k \in 0..MaxAlignKeys}

InitAlign ==
    /\ D_overall \in AlignDicts(PyStr("x"))
    /\ D_structr \in {<<>>, <<Bare("Degree")>>}
    /\ D_metainf = <<>>
    /\ n_ov = Len(D_overall)
    /\ n_st = Len(D_structr)
    /\ n_mi = Len(D_metainf)
    /\ n_ov_st = Len(D_overall) + Len(D_structr)
    /\ n_ov_st_mi = Len(D_overall) + Len(D_structr) + Len(D_metainf)
    /\ last = Call("__init__", "", "")
    /\ \E ov \in AlignDicts(PyStr("y")) :
          \E st \in {<<>>, <<Item("Name", PyStr("y"), <<>>)>>} :
             \E mi \in {<<>>, <<Item("Access", PyStr("y"), <<"n1">>)>>} :
                out = CardOut(ov, st, mi, SizesOf(ov, st, mi))

\* align_cards(C1, C2) with this card as C1 (first = TRUE) or as C2 and the
\* card in out as the other
AlignCardsOfOut(first) ==
    LET ov == IF first THEN _align_dicts_ordered(D_overall, out.overall, null_string)
              ELSE _align_dicts_ordered(out.overall, D_overall, null_string)
        st == IF first THEN _align_dicts_ordered(D_structr, out.structr, null_string)
              ELSE _align_dicts_ordered(out.structr, D_structr, null_string)
        mi == IF first THEN _align_dicts_ordered(D_metainf, out.metainf, null_string)
              ELSE _align_dicts_ordered(out.metainf, D_metainf, null_string)
        me == IF first THEN 1 ELSE 2
        it == IF first THEN 2 ELSE 1
    IN  /\ out.kind = "card"
        /\ D_overall' = ov[me]
        /\ D_structr' = st[me]
        /\ D_metainf' = mi[me]
        /\ _sizes(D_overall', D_structr', D_metainf')
        /\ last' = Call("align_cards", "", "")
        /\ out' = CardOut(ov[it], st[it], mi[it],
                          SizesOf(ov[it], st[it], mi[it]))

NextAlign == \E first \in BOOLEAN : AlignCardsOfOut(first)

SpecAlign == InitAlign /\ [][NextAlign]_vars

(***************************************************************************)
(* Properties of the card operations.                                      *)
(***************************************************************************)
OtherPanelsUnchanged(p) ==
    \A q \in PanelNames \ {p} : Panel(q)' = Panel(q)
OtherFieldsUnchanged(p, fs) ==
    \A g \in Keys(Panel(p)) \ fs :
        g \in Keys(Panel(p)') /\ Get(Panel(p)', g) = Get(Panel(p), g)
\* the step is a call of op on field f of panel p that did not raise
IsCall(op, p, f) ==
    /\ last'.op = op
    /\ ~last'.raised
    /\ last'.panel = p
    /\ last'.field = f
HadNotes(p, f) ==
    f \in Keys(Panel(p)) /\ Get(Panel(p), f).notes # <<>>

\* C1 as stated: update(panel, field, value) on a field that has footnotes
\* leaves the field's footnote sequence exactly as it was.
C1_UpdateKeepsFootnotes ==
    [][\A p \in PanelNames, f \in Fields, v \in Values :
          (IsCall("update_pair", p, f) /\ UpdatePair(p, f, v) /\ HadNotes(p, f)) =>
              Get(Panel(p)', f).notes = Get(Panel(p), f).notes]_vars

\* C1 as amended: update(panel, field, value) with a plain value on a field
\* that has footnotes replaces the whole entry: afterwards the field has no
\* footnotes; its position and all other fields are as before.
C1_UpdateReplacesEntry ==
    [][\A p \in PanelNames, f \in Fields, v \in Values :
          (IsCall("update_pair", p, f) /\ UpdatePair(p, f, v) /\ HadNotes(p, f)) =>
              /\ Get(Panel(p)', f).notes = <<>>
              /\ KeyList(Panel(p)') = KeyList(Panel(p))
              /\ OtherFieldsUnchanged(p, {f})
              /\ OtherPanelsUnchanged(p)]_vars

\* an update(panel, field, value) call has hit a field that had footnotes
C1_Witness ==
    /\ last.op = "update_pair"
    /\ last.before = "noted"

\* the effect C2 states for an update of dict p with the fields ks (in the
\* order the call names them)
UpdateOrderKept(p, ks) ==
    /\ KeyList(Panel(p)') =
          KeyList(Panel(p)) \o SelectSeq(ks, LAMBDA k : k \notin Keys(Panel(p)))
    /\ OtherFieldsUnchanged(p, {ks[i] : i \in 1..Len(ks)})
    /\ OtherPanelsUnchanged(p)

\* C2: update appends an absent field at the end of the panel's order and
\* keeps a present field where it is; every other field of every panel keeps
\* its position and entry; a mapping is applied in its iteration order.
C2_UpdateOrder ==
    [][/\ \A p \in PanelNames, f \in Fields :
            (IsCall("update_field", p, f) /\ UpdateField(p, f)) =>
                UpdateOrderKept(p, <<f>>)
       /\ \A p \in PanelNames, f \in Fields, v \in Values :
            (IsCall("update_pair", p, f) /\ UpdatePair(p, f, v)) =>
                UpdateOrderKept(p, <<f>>)
       /\ \A p \in PanelNames, m \in Mappings :
            (IsCall("update_mapping", p, m[1].field) /\ UpdateMapping(p, m)) =>
                /\ UpdateOrderKept(p, KeyList(m))
                /\ \A i \in 1..Len(m) : Get(Panel(p)', m[i].field) = m[i]]_vars

\* a mapping of two fields has been applied to a panel that held neither:
\* the field it names first was absent and is now first of two
C2_Witness ==
    /\ last.op = "update_mapping"
    /\ last.before = "absent"
    /\ Len(Panel(last.panel)) = 2
    /\ Panel(last.panel)[1].field = last.field

\* C3 as stated: after update(panel, field, v) with an explicitly supplied
\* v, 0 and other falsy values included, the field's value is exactly v.
C3_UpdateStoresValue ==
    [][\A p \in PanelNames, f \in Fields, v \in Values :
          (IsCall("update_pair", p, f) /\ UpdatePair(p, f, v)) =>
              /\ f \in Keys(Panel(p)')
              /\ Get(Panel(p)', f).value = v]_vars

NoteAppended(p, f, note) ==
    /\ KeyList(Panel(p)') = KeyList(Panel(p))
    /\ Get(Panel(p)', f).notes = Append(Get(Panel(p), f).notes, note)
    /\ Get(Panel(p)', f).value = Get(Panel(p), f).value
    /\ OtherFieldsUnchanged(p, {f})

\* C5: each footnote-attach call on an existing field appends exactly one
\* footnote text at the end of the field's footnote sequence and changes
\* neither the field's value nor its position; identical texts accumulate.
C5_FootnoteAppends ==
    [][/\ \A p \in PanelNames, f \in Fields, n \in Notes :
            (IsCall("add_footnote_panel", p, f) /\ AddFootnotePanel(p, f, n)) =>
                NoteAppended(p, f, n)
       /\ \A p \in PanelNames, f \in Fields, n \in Notes :
            (IsCall("add_footnote", p, f) /\ AddFootnote(f, n)) =>
                NoteAppended(p, f, n)]_vars

\* a second copy of the same text has been attached to a field
C5_Witness ==
    /\ last.op \in {"add_footnote", "add_footnote_panel"}
    /\ ~last.raised
    /\ last.before = "noted"
    /\ Get(Panel(last.panel), last.field).notes = <<"n1", "n1">>

\* the panels that hold field f, as positions in the fixed panel order
Holders(f) == {i \in 1..3 : f \in Keys(Panel(_panel_names[i]))}
Lowest(S) == CHOOSE i \in S : \A j \in S : i <= j

\* C6: add_footnote acts on the first of Overall, Structure, Metainformation
\* that holds the field and on that panel's entry only; with the field in no
\* panel it raises and the card is unchanged.
C6_FootnoteFirstPanel ==
    [][\A f \in Fields, n \in Notes :
          (last'.op = "add_footnote" /\ AddFootnote(f, n)) =>
              IF Holders(f) = {}
              THEN last'.raised /\ UNCHANGED <<panels, sizes>>
              ELSE \A p \in PanelNames :
                      p = _panel_names[Lowest(Holders(f))] =>
                          /\ ~last'.raised
                          /\ NoteAppended(p, f, n)
                          /\ OtherPanelsUnchanged(p)]_vars

\* add_footnote has acted on a field that two panels hold
C6_Witness ==
    /\ last.op = "add_footnote"
    /\ ~last.raised
    /\ Cardinality(Holders(last.field)) = 2
    /\ last.panel = _panel_names[Lowest(Holders(last.field))]

\* C7: clear sets every value to the blank value; without keep_notes no
\* field keeps a footnote, with keep_notes every footnote sequence is kept;
\* field set and order are unchanged.
C7_Clear ==
    [][\A v \in ClearValues, k \in BOOLEAN :
          (last'.op \in {"clear", "clear_keep_notes"} /\ Clear(v, k)) =>
              \A p \in PanelNames :
                  /\ KeyList(Panel(p)') = KeyList(Panel(p))
                  /\ \A i \in 1..Len(Panel(p)) :
                        /\ Panel(p)'[i].value = v
                        /\ Panel(p)'[i].notes =
                              IF k THEN Panel(p)[i].notes ELSE <<>>]_vars

\* clear(keep_notes=True) has run on a card that holds footnotes
C7_Witness ==
    /\ last.op = "clear_keep_notes"
    /\ TotalNotes(D_overall, D_structr, D_metainf) = MaxNotes
    /\ n_ov_st_mi = MaxFields

\* C8: the stored size counters equal the panel lengths and their sums, on
\* this card and on the other card of align_cards.
C8_SizesConsistent ==
    /\ n_ov = Len(D_overall)
    /\ n_st = Len(D_structr)
    /\ n_mi = Len(D_metainf)
    /\ n_ov_st = Len(D_overall) + Len(D_structr)
    /\ n_ov_st_mi = Len(D_overall) + Len(D_structr) + Len(D_metainf)
    /\ out.kind = "card" =>
          /\ out.sizes.n_ov = Len(out.overall)
          /\ out.sizes.n_st = Len(out.structr)
          /\ out.sizes.n_mi = Len(out.metainf)
          /\ out.sizes.n_ov_st = Len(out.overall) + Len(out.structr)
          /\ out.sizes.n_ov_st_mi =
                Len(out.overall) + Len(out.structr) + Len(out.metainf)

\* align_cards has given the card a field in the first and in the last panel
C8_Witness ==
    /\ last.op = "align_cards"
    /\ D_overall # <<>>
    /\ D_metainf # <<>>

(***************************************************************************)
(* Properties of the footnote numbering.                                   *)
(***************************************************************************)
Rendered == out.kind \in {"text", "latex", "excel"}
\* the rows the renderers scan, and all their footnotes in scan order
Rows == _series(D_overall, D_structr, D_metainf)
RECURSIVE FlatNotes(_)
FlatNotes(rows) ==
    IF rows = <<>> THEN <<>> ELSE Head(rows).notes \o FlatNotes(Tail(rows))
FirstAt(F, x) == CHOOSE i \in 1..Len(F) : F[i] = x /\ \A j \in 1..(i - 1) : F[j] # x
Count(sq, x) == Cardinality({i \in 1..Len(sq) : sq[i] = x})

\* the numbers a render attached to row i, in the order it lists them
MarkNums(o, i) ==
    IF o.kind = "latex"
    THEN [j \in 1..Len(o.rows[i].marks) |-> o.rows[i].marks[j].num]
    ELSE o.rows[i].marks
\* all footnote commands of the typeset render, in scan order
RECURSIVE FlatMarks(_)
FlatMarks(rows) ==
    IF rows = <<>> THEN <<>> ELSE Head(rows).marks \o FlatMarks(Tail(rows))
\* the legend of a render: (text, number) in the order the render lists them;
\* the typeset render's legend is its \tablefootnote commands
LegendOf(o) ==
    IF o.kind = "latex"
    THEN LET defs == SelectSeq(FlatMarks(o.rows),
                               LAMBDA m : m.cmd = "tablefootnote")
         IN  [i \in 1..Len(defs) |-> [note |-> defs[i].text, num |-> defs[i].num]]
    ELSE o.legend
BaseOf(o) == IF o.kind = "latex" THEN 0 ELSE 1

\* C9: in every render a footnote text gets the next unused number at its
\* first occurrence in scan order and the same number afterwards; the numbers
\* are contiguous from the base (1, typeset 0); the legend lists each distinct
\* text once, in first-seen order.
C9_Numbering ==
    Rendered =>
        LET F == FlatNotes(Rows)
            L == LegendOf(out)
        IN  /\ Len(out.rows) = Len(Rows)
            /\ {L[i].note : i \in 1..Len(L)} = {F[i] : i \in 1..Len(F)}
            /\ \A i, j \in 1..Len(L) : i < j => L[i].note # L[j].note
            /\ \A i, j \in 1..Len(L) :
                  i < j => FirstAt(F, L[i].note) < FirstAt(F, L[j].note)
            /\ \A i \in 1..Len(L) : L[i].num = BaseOf(out) + i - 1
            /\ \A i \in 1..Len(Rows) :
                  /\ Len(MarkNums(out, i)) = Len(Rows[i].notes)
                  /\ \A k \in 1..Len(L) :
                        Count(MarkNums(out, i), L[k].num) =
                            Count(Rows[i].notes, L[k].note)
                  /\ out.kind # "excel" =>
                        \A j \in 1..Len(Rows[i].notes) :
                            \E k \in 1..Len(L) :
                                /\ L[k].note = Rows[i].notes[j]
                                /\ L[k].num = MarkNums(out, i)[j]

\* a render of two rows that share a footnote text, with a second text
C9_Witness ==
    /\ Rendered
    /\ Len(Rows) = 2
    /\ \E n \in Notes :
          /\ \E j \in 1..Len(Rows[1].notes) : Rows[1].notes[j] = n
          /\ \E j \in 1..Len(Rows[2].notes) : Rows[2].notes[j] = n
    /\ Len(LegendOf(out)) = 2

\* the numbers the plain-text render attaches to row i, from 0
TextNums(i) ==
    LET t == __repr__(D_overall, D_structr, D_metainf).rows[i].marks
    IN  [j \in 1..Len(t) |-> t[j] - 1]
OwnNums(i) ==
    [j \in 1..Len(MarkNums(out, i)) |-> MarkNums(out, i)[j] - BaseOf(out)]

\* C10 as stated: up to the 0-/1-based offset every render attaches the same
\* sequence of numbers to a field, in the order of the field's footnote list.
C10_SameSequence ==
    Rendered => \A i \in 1..Len(Rows) : OwnNums(i) = TextNums(i)

\* C10 as amended: the plain-text and the typeset render attach the same
\* sequence of numbers (up to the offset), in the order of the field's
\* footnote list; the spreadsheet render attaches the same numbers as often,
\* listed in ascending order of their decimal strings.
C10_SameNumbers ==
    Rendered =>
        \A i \in 1..Len(Rows) :
            /\ out.kind # "excel" => OwnNums(i) = TextNums(i)
            /\ out.kind = "excel" =>
                  /\ Len(OwnNums(i)) = Len(TextNums(i))
                  /\ \A k \in 0..Len(FlatNotes(Rows)) :
                        Count(OwnNums(i), k) = Count(TextNums(i), k)
                  /\ \A j \in 1..(Len(OwnNums(i)) - 1) :
                        ~StrNumLess(MarkNums(out, i)[j + 1], MarkNums(out, i)[j])

\* a spreadsheet render of a field whose footnote list is not in number order
C10_Witness ==
    /\ out.kind = "excel"
    /\ \E i \in 1..Len(Rows) : TextNums(i) = <<1, 0>>

(***************************************************************************)
(* Properties of the projections.                                          *)
(***************************************************************************)
RenderOps == {"__repr__", "to_latex", "to_excel"}
ProjectOps == RenderOps \cup {"to_frame", "to_json", "NetworkMultiCard"}

\* C11: no render or projection (plain text, to_frame, to_dict/to_json,
\* to_latex, to_excel, MultiCard construction) changes the panels, their
\* entries or their order, and a render that directly follows the same
\* render returns the same marks, values and legend.
C11_RendersDoNotMutate ==
    [][last'.op \in ProjectOps =>
          /\ D_overall' = D_overall
          /\ D_structr' = D_structr
          /\ D_metainf' = D_metainf
          /\ (last.op = last'.op /\ last.op \in RenderOps) => out' = out]_vars

\* a render has run on a card with footnotes whose Overall and Structure
\* panels hold the same field, and returned what a render of the card as it
\* is now returns
C11_Witness ==
    /\ last.op = "to_latex"
    /\ out = to_latex(D_overall, D_structr, D_metainf)
    /\ Keys(D_overall) \cap Keys(D_structr) # {}
    /\ TotalNotes(D_overall, D_structr, D_metainf) > 0

\* the (panel, field, value) rows of a frame
PanelFieldValue(frame) ==
    [i \in 1..Len(frame.rows) |->
        [Panel |-> frame.rows[i].Panel, Field |-> frame.rows[i].Field,
         Value |-> frame.rows[i].Value]]

\* C12: the card rebuilt from the JSON snapshot of a card projects to the
\* same ordered sequence of (panel, field, value) rows as the card itself,
\* with or without footnotes.
C12_RoundTripRows ==
    [][last'.op = "read_json" =>
          PanelFieldValue(to_frame(D_overall', D_structr', D_metainf')) =
              PanelFieldValue(to_frame(D_overall, D_structr, D_metainf))]_vars

\* a card with footnotes and two fields of one panel, listed against the
\* order of their names and holding a number and a string, has been rebuilt
\* from its snapshot
C12_Witness ==
    /\ last.op = "read_json"
    /\ KeyList(D_overall) = <<"Name", "Degree">>
    /\ D_overall[1].value = PyInt(0)
    /\ D_overall[2].value = PyStr("x")
    /\ D_overall[1].notes # <<>>

\* C13 as stated: a card rebuilt from the snapshot of any card has no
\* footnotes on any field.
C13_SnapshotDropsFootnotes ==
    [][last'.op = "read_json" =>
          TotalNotes(D_overall', D_structr', D_metainf') = 0]_vars

\* C13 as amended: the snapshot carries a field with footnotes as the array
\* of its value and its footnote texts, and a card rebuilt from it has on
\* every field the footnote sequence the original has (none where it has none).
C13_SnapshotKeepsFootnotes ==
    [][last'.op = "read_json" =>
          \A p \in PanelNames :
              /\ KeyList(Panel(p)') = KeyList(Panel(p))
              /\ \A i \in 1..Len(Panel(p)) :
                    Panel(p)'[i].notes = Panel(p)[i].notes]_vars

\* a card holding as many footnotes as the bound allows, among them two on
\* one field, has been rebuilt from its snapshot
C13_Witness ==
    /\ last.op = "read_json"
    /\ TotalNotes(D_overall, D_structr, D_metainf) = MaxNotes
    /\ \E p \in PanelNames : \E i \in 1..Len(Panel(p)) : Len(Panel(p)[i].notes) = 2

(***************************************************************************)
(* Properties of the multicard.                                            *)
(***************************************************************************)
CardPanel(c, p) ==
    CASE p = "Overall" -> c.overall
      [] p = "Structure" -> c.structr
      [] p = "Metainformation" -> c.metainf
\* the rows of D with the key (p, f)
RowsOf(D, p, f) == {j \in 1..Len(D) : D[j].Panel = p /\ D[j].Field = f}

\* C14 as stated: for any list of cards the multicard has exactly one row
\* per (panel, field) pair occurring in at least one card, none for any other
\* pair, and a row shows each card's value in the card's column, a blank in
\* the column of a card that lacks the field in that panel.
C14_UnionRows ==
    last.op = "NetworkMultiCard" =>
        /\ out.kind = "multicard"
        /\ LET D == show_frame(out.mc.D)
               cards == out.cards
           IN  /\ \A i \in 1..Len(cards), p \in PanelNames :
                     \A f \in Keys(CardPanel(cards[i], p)) :
                         Cardinality(RowsOf(D, p, f)) = 1
               /\ \A j \in 1..Len(D) :
                     /\ Len(D[j].Values) = Len(cards)
                     /\ \E i \in 1..Len(cards) :
                           D[j].Field \in Keys(CardPanel(cards[i], D[j].Panel))
                     /\ \A i \in 1..Len(cards) :
                           D[j].Values[i] =
                               IF D[j].Field \in Keys(CardPanel(cards[i], D[j].Panel))
                               THEN Get(CardPanel(cards[i], D[j].Panel),
                                        D[j].Field).value
                               ELSE null_string

\* the fields of panel p in order of first appearance across the cards
RECURSIVE FirstAppearance(_, _, _)
FirstAppearance(cards, p, acc) ==
    IF cards = <<>> THEN acc
    ELSE FirstAppearance(Tail(cards), p,
            acc \o SelectSeq(KeyList(CardPanel(Head(cards), p)),
                             LAMBDA k : \A i \in 1..Len(acc) : acc[i] # k))
KeysOfPanel(cards, p) ==
    LET ks == FirstAppearance(cards, p, <<>>)
    IN  [i \in 1..Len(ks) |-> [Panel |-> p, Field |-> ks[i]]]
RowKeys(D) == [j \in 1..Len(D) |-> [Panel |-> D[j].Panel, Field |-> D[j].Field]]

\* C15: after construction the rows are grouped by panel in the order
\* Overall, Structure, Metainformation, and within a panel the fields are in
\* order of first appearance across the cards in the order supplied.
C15_RowOrder ==
    (last.op = "NetworkMultiCard" /\ out.kind = "multicard") =>
        RowKeys(out.mc.D) =
            KeysOfPanel(out.cards, "Overall") \o KeysOfPanel(out.cards, "Structure")
                \o KeysOfPanel(out.cards, "Metainformation")

\* a multicard of two cards: the first holds Name in Overall and a field of a
\* later panel, the second adds Degree to Overall, so the merge met the rows
\* as Overall, later panel, Overall
C15_Witness ==
    /\ last.op = "NetworkMultiCard"
    /\ out.kind = "multicard"
    /\ Len(out.cards) = 2
    /\ KeyList(out.cards[1].overall) = <<"Name">>
    /\ Len(out.cards[1].structr) + Len(out.cards[1].metainf) = 1
    /\ RowKeys(out.mc.D)[1] = [Panel |-> "Overall", Field |-> "Name"]
    /\ RowKeys(out.mc.D)[2] = [Panel |-> "Overall", Field |-> "Degree"]
    /\ Len(out.mc.D) = 3

\* the rows of D lie in three blocks at the offsets the renderers use
\* (to_latex lines 720-728, to_excel lines 767-782)
PanelBlocks(D) ==
    LET nov == Cardinality({j \in 1..Len(D) : D[j].Panel = "Overall"})
        nst == Cardinality({j \in 1..Len(D) : D[j].Panel = "Structure"})
    IN  \A j \in 1..Len(D) :
            D[j].Panel = IF j <= nov THEN "Overall"
                         ELSE IF j <= nov + nst THEN "Structure"
                         ELSE "Metainformation"
IsPermutation(D, D0) ==
    /\ Len(D) = Len(D0)
    /\ \A j \in 1..Len(D0) : \E k \in 1..Len(D) : D[k] = D0[j]

\* C16: a swap_two_rows call on two rows of one panel exchanges those two
\* rows and moves no other; after any sequence of such calls the rows are a
\* permutation of the rows at construction and lie in the three panel blocks,
\* in the order Overall, Structure, Metainformation.
C16_SwapsKeepPanels ==
    [][/\ (last'.op = "swap_two_rows" /\ ~last'.raised) =>
            \A pos1, pos2 \in 0..(Len(out.mc.D) - 1) :
                (/\ out.mc.D[pos1 + 1].Panel = out.mc.D[pos2 + 1].Panel
                 /\ out'.mc.D = swap_two_rows(out.mc.D, pos1, pos2)) =>
                    /\ out'.mc.D[pos1 + 1] = out.mc.D[pos2 + 1]
                    /\ out'.mc.D[pos2 + 1] = out.mc.D[pos1 + 1]
                    /\ \A j \in 1..Len(out.mc.D) :
                          j \notin {pos1 + 1, pos2 + 1} =>
                              out'.mc.D[j] = out.mc.D[j]
       /\ (out'.kind = "multicard" /\ out'.in_panel) =>
              /\ PanelBlocks(out'.mc.D)
              /\ IsPermutation(out'.mc.D, out'.D0)]_vars

\* two rows of the Overall panel of a multicard with rows in a second panel
\* have been swapped
C16_Witness ==
    /\ last.op = "swap_two_rows"
    /\ ~last.raised
    /\ out.in_panel
    /\ out.mc.D # out.D0
    /\ Cardinality({j \in 1..Len(out.mc.D) : out.mc.D[j].Panel = "Overall"}) = 2
    /\ Len(out.mc.D) > 2

(***************************************************************************)
(* Properties of the spreadsheet frame.                                    *)
(***************************************************************************)
\* the cells of the range of a call
CellsOf(c) ==
    {<<r, k>> : r \in c.first_row..c.last_row, k \in c.first_col..c.last_col}
\* the formats a cell received, as the calls that reach it
CallsOn(calls, cell) == {i \in DOMAIN calls : cell \in CellsOf(calls[i])}
\* the cell received exactly one format, with exactly these sides
OnlyFormat(calls, cell, sides) ==
    /\ Cardinality(CallsOn(calls, cell)) = 1
    /\ \A i \in CallsOn(calls, cell) : calls[i].format = sides
\* every cell a call of the worksheet can reach within the bounds
FrameCells ==
    {<<r, k>> : r \in -1..(MaxFrameOrigin + MaxFrameRows),
                k \in -1..(MaxFrameOrigin + MaxFrameCols)}

\* C17: a block of height 1 and width 1 is framed as a single cell bordered
\* on all four sides; a block of height 1 and width at least 3 is framed as a
\* left cap (top, left, bottom), a middle run over the interior columns with
\* top and bottom only, and a right cap (top, right, bottom); no cell
\* receives more than one border format, no interior cell receives a left or
\* right border, and no cell outside the block receives a format.
C17_RowFrame ==
    (out.kind = "worksheet" /\ out.rows_count = 1) =>
        LET r  == out.first_row
            c1 == out.first_col
            c2 == out.first_col + out.cols_count - 1
        IN  /\ out.cols_count = 1 =>
                /\ OnlyFormat(out.calls, <<r, c1>>,
                              {"top", "bottom", "left", "right"})
                /\ \A cell \in FrameCells \ {<<r, c1>>} :
                      CallsOn(out.calls, cell) = {}
            /\ out.cols_count >= 3 =>
                /\ OnlyFormat(out.calls, <<r, c1>>, {"top", "left", "bottom"})
                /\ OnlyFormat(out.calls, <<r, c2>>, {"top", "right", "bottom"})
                /\ \A k \in (c1 + 1)..(c2 - 1) :
                      OnlyFormat(out.calls, <<r, k>>, {"top", "bottom"})
                /\ \A cell \in FrameCells :
                      /\ Cardinality(CallsOn(out.calls, cell)) <= 1
                      /\ (cell[1] # r \/ cell[2] \notin c1..c2) =>
                            CallsOn(out.calls, cell) = {}

\* a framed block of height 1 with at least two interior columns
C17_Witness ==
    /\ out.kind = "worksheet"
    /\ out.rows_count = 1
    /\ out.cols_count >= 4
    /\ Len(out.calls) = 3

(***************************************************************************)
(* Properties of the typeset render.                                       *)
(***************************************************************************)
IsPrefix(p, cs) == Len(p) <= Len(cs) /\ SubSeq(cs, 1, Len(p)) = p
\* the text a typeset cell stands for: every escape sequence read back as
\* its character, and "BARE" for a markup character that is not part of one
RECURSIVE TexRead(_)
TexRead(cs) ==
    IF cs = <<>> THEN <<>>
    ELSE IF \E k \in ConvKeys : IsPrefix(conv(k), cs)
    THEN LET k == CHOOSE c \in ConvKeys : IsPrefix(conv(c), cs)
         IN  <<k>> \o TexRead(SubSeq(cs, Len(conv(k)) + 1, Len(cs)))
    ELSE IF Head(cs) \in ConvKeys THEN <<"BARE">> \o TexRead(Tail(cs))
    ELSE <<Head(cs)>> \o TexRead(Tail(cs))

\* C18: in the typeset render of a card every value and every field label
\* has each markup character replaced by its escape sequence exactly once,
\* and no character of a replacement is escaped again: read back, the cell
\* is the text of the entry.
C18_ValuesAndLabelsEscaped ==
    (last.op = "to_latex" /\ out.kind = "latex") =>
        LET s == _series(D_overall, D_structr, D_metainf)
        IN  \A i \in 1..Len(s) :
                /\ s[i].value.type = "str" =>
                      /\ out.values[i].type = "tex"
                      /\ TexRead(out.values[i].chars) = Chars(s[i].value.s)
                /\ TexRead(Chars(out.rows[i].field)) = Chars(s[i].field)

\* the same for the values alone
C18_ValuesEscaped ==
    (last.op = "to_latex" /\ out.kind = "latex") =>
        LET s == _series(D_overall, D_structr, D_metainf)
        IN  \A i \in 1..Len(s) :
                s[i].value.type = "str" =>
                    /\ out.values[i].type = "tex"
                    /\ TexRead(out.values[i].chars) = Chars(s[i].value.s)

(***************************************************************************)
(* Properties of the row sequence of a single card.                        *)
(***************************************************************************)
\* C19: the rows a renderer consumes are the entries of the Overall, the
\* Structure and the Metainformation panel, in that order and each panel in
\* insertion order, one row per field of each panel (as many rows as the
\* three sizes add up to, also with a field name in two panels), with the
\* value and the footnotes of the entry; they agree row for row with the
\* frame projection.
C19_RowsArePanels ==
    last.op \in RenderOps =>
        LET s   == _series(D_overall, D_structr, D_metainf)
            cat == D_overall \o D_structr \o D_metainf
            fr  == to_frame(D_overall, D_structr, D_metainf).rows
        IN  /\ Len(out.rows) = n_ov + n_st + n_mi
            /\ Len(out.rows) = Len(fr)
            /\ Len(s) = Len(cat)
            /\ \A i \in 1..Len(s) :
                  /\ s[i] = cat[i]
                  /\ out.rows[i].field = fr[i].Field
                  /\ s[i].value = fr[i].Value

\* the same for the cards whose field names differ from panel to panel
C19_RowsOfDistinctFields ==
    (/\ last.op \in RenderOps
     /\ \A i, j \in 1..Len(D_overall \o D_structr \o D_metainf) :
           i # j => (D_overall \o D_structr \o D_metainf)[i].field
                        # (D_overall \o D_structr \o D_metainf)[j].field) =>
        LET s   == _series(D_overall, D_structr, D_metainf)
            cat == D_overall \o D_structr \o D_metainf
            fr  == to_frame(D_overall, D_structr, D_metainf).rows
        IN  /\ Len(out.rows) = n_ov + n_st + n_mi
            /\ Len(out.rows) = Len(fr)
            /\ Len(s) = Len(cat)
            /\ \A i \in 1..Len(s) :
                  /\ s[i] = cat[i]
                  /\ out.rows[i].field = fr[i].Field
                  /\ s[i].value = fr[i].Value

(***************************************************************************)
(* Properties of the distribution summary.                                 *)
(***************************************************************************)
\* the numbers of the text "[v1, v2, ...]"
RECURSIVE ReadList(_, _, _, _)
ReadList(cs, acc, cur, open) ==
    IF cs = <<>> THEN acc
    ELSE IF Head(cs) \in {"[", " "} THEN ReadList(Tail(cs), acc, cur, open)
    ELSE IF Head(cs) \in {",", "]"}
    THEN ReadList(Tail(cs), IF open THEN Append(acc, cur) ELSE acc, 0, FALSE)
    ELSE ReadList(Tail(cs), acc,
                  10 * cur + (CHOOSE d \in 0..9 : DigitChars[d + 1] = Head(cs)),
                  TRUE)
\* how often v occurs in xs
Occurrences(xs, v) == Cardinality({i \in DOMAIN xs : xs[i] = v})
IsDescendingListOf(cs, values) ==
    LET xs == ReadList(cs, <<>>, 0, FALSE)
    IN  /\ cs = StrOfList(xs)
        /\ Len(xs) = Len(values)
        /\ \A v \in 0..MaxValue : Occurrences(xs, v) = Occurrences(values, v)
        /\ \A i \in 1..(Len(xs) - 1) : xs[i] >= xs[i + 1]
IsSummaryOf(entry, values) ==
    /\ entry.value.type = "summary"
    /\ entry.value.count = Len(values)
    /\ entry.value.sum = SumOf(values)
    /\ \A i \in DOMAIN values :
          entry.value.min <= values[i] /\ values[i] <= entry.value.max
    /\ \E i, j \in DOMAIN values :
          entry.value.min = values[i] /\ entry.value.max = values[j]
    /\ Len(entry.notes) = 1

\* C20: a sequence of at most 5 values gives the literal list of the values
\* sorted in descending order, with no footnote; a sequence of more than 5
\* values gives the 'mean [min, max]' summary with exactly one footnote; an
\* empty sequence gives a blank field.
C20_DistributionSummary ==
    out.kind = "distribution" =>
        /\ out.values = <<>> =>
              out.entry.value = null_string /\ out.entry.notes = <<>>
        /\ Len(out.values) \in 1..5 =>
              /\ out.entry.value.type = "text"
              /\ IsDescendingListOf(out.entry.value.chars, out.values)
              /\ out.entry.notes = <<>>
        /\ Len(out.values) > 5 => IsSummaryOf(out.entry, out.values)

\* the same for the sequences that are not empty
C20_SummaryOfSomeValues ==
    (out.kind = "distribution" /\ out.values # <<>>) =>
        /\ Len(out.values) <= 5 =>
              /\ out.entry.value.type = "text"
              /\ IsDescendingListOf(out.entry.value.chars, out.values)
              /\ out.entry.notes = <<>>
        /\ Len(out.values) > 5 => IsSummaryOf(out.entry, out.values)

(***************************************************************************)
(* Properties of the degree fields.                                        *)
(***************************************************************************)
HasField(d, f) == \E i \in 1..Len(d) : d[i].field = f
\* the entry of field f is the literal list of the values, sorted descending
IsListEntry(d, f, values) ==
    /\ HasField(d, f)
    /\ Get(d, f).value = PyText(StrOfList(SortedDescending(values)))

\* C21: for every directed graph of 1 to 5 nodes with at least one link,
\* populating the card completes without error, and the Structure panel
\* holds the in/out-degree field and the undirected 'Degree' field, each as
\* the literal list of the degrees sorted in descending order.
C21_SmallDirectedDegrees ==
    (/\ out.kind \in {"labelled", "ValueError"}
     /\ out.graph.directed
     /\ out.graph.n \in 1..5
     /\ out.graph.edges # {}) =>
        /\ ~last.raised
        /\ out.kind = "labelled"
        /\ IsListEntry(D_structr, "Degree (in/out)", in_degree(out.graph))
        /\ IsListEntry(D_structr, "Degree", degree(out.graph))

\* the directed graphs of more than 5 nodes: both fields hold the summary,
\* and 'Degree' the footnote "Undirected." before the footnote of the summary
C21_LargeDirectedDegrees ==
    (/\ out.kind \in {"labelled", "ValueError"}
     /\ out.graph.directed
     /\ out.graph.n > 5) =>
        /\ ~last.raised
        /\ HasField(D_structr, "Degree (in/out)")
        /\ HasField(D_structr, "Degree")
        /\ Get(D_structr, "Degree (in/out)").value = MeanMinMax(in_degree(out.graph))
        /\ Get(D_structr, "Degree (in/out)").notes = <<ftext>>
        /\ Get(D_structr, "Degree").value = MeanMinMax(degree(out.graph))
        /\ Get(D_structr, "Degree").notes = <<"Undirected.", ftext>>

(***************************************************************************)
(* Properties of align_cards.                                              *)
(***************************************************************************)
KeySeq(d) == [i \in 1..Len(d) |-> d[i].field]
\* a and b are keys of d, a before b
KeyBefore(d, a, b) ==
    /\ a \in Keys(d)
    /\ b \in Keys(d)
    /\ IndexOf(d, a) < IndexOf(d, b)
\* the two panels order no pair of their common keys in opposite ways
NoConflict(D1, D2) ==
    \A a, b \in Keys(D1) \cap Keys(D2) : KeyBefore(D1, a, b) <=> KeyBefore(D2, a, b)
\* panel N of one card after the alignment of D with the panel E of the
\* other card: the keys of both, the entries of D kept, the others blank
KeysAligned(D, E, N) ==
    /\ Keys(N) = Keys(D) \cup Keys(E)
    /\ Cardinality(Keys(N)) = Len(N)
    /\ \A i \in 1..Len(N) :
          N[i] = IF N[i].field \in Keys(D) THEN Get(D, N[i].field)
                 ELSE Item(N[i].field, null_string, <<>>)
\* the keys of D are in N in the order they have in D
OrderKept(D, N) == \A a, b \in Keys(D) : KeyBefore(D, a, b) => KeyBefore(N, a, b)
PanelAligned(D1, D2, N1, N2) ==
    /\ KeySeq(N1) = KeySeq(N2)
    /\ KeysAligned(D1, D2, N1)
    /\ KeysAligned(D2, D1, N2)
    /\ NoConflict(D1, D2) => OrderKept(D1, N1) /\ OrderKept(D2, N1)
PanelKeysAligned(D1, D2, N1, N2) ==
    /\ KeySeq(N1) = KeySeq(N2)
    /\ KeysAligned(D1, D2, N1)
    /\ KeysAligned(D2, D1, N2)

\* C22: after align_cards(C1, C2) each panel of C1 and the same panel of C2
\* have the same key sequence, the union of the two original key sets, with
\* the original entries kept and the missing ones blank; two keys that were
\* both in the panel of C1 keep their order from C1 and two keys that were
\* both in the panel of C2 keep their order from C2, whenever the two panels
\* do not order their common keys in conflicting ways.
C22_AlignKeepsOrder ==
    [][last'.op = "align_cards" =>
          /\ PanelAligned(D_overall, out.overall, D_overall', out'.overall)
          /\ PanelAligned(D_structr, out.structr, D_structr', out'.structr)
          /\ PanelAligned(D_metainf, out.metainf, D_metainf', out'.metainf)]_vars

\* the same without the order of the keys
C22_AlignUnitesKeys ==
    [][last'.op = "align_cards" =>
          /\ PanelKeysAligned(D_overall, out.overall, D_overall', out'.overall)
          /\ PanelKeysAligned(D_structr, out.structr, D_structr', out'.structr)
          /\ PanelKeysAligned(D_metainf, out.metainf, D_metainf', out'.metainf)]_vars

(***************************************************************************)
(* Properties of the frames the renderers request.                         *)
(***************************************************************************)
\* the range of a call is well-formed
WellFormed(c) ==
    /\ 0 <= c.first_row
    /\ c.first_row <= c.last_row
    /\ 0 <= c.first_col
    /\ c.first_col <= c.last_col
\* the range of a call lies inside the block
InsideBlock(c, first_row, first_col, rows_count, cols_count) ==
    /\ first_row <= c.first_row
    /\ c.last_row <= first_row + rows_count - 1
    /\ first_col <= c.first_col
    /\ c.last_col <= first_col + cols_count - 1
\* the calls of one frame request
FrameInBlock(calls, first_row, first_col, rows_count, cols_count) ==
    /\ \A i \in 1..Len(calls) :
          /\ WellFormed(calls[i])
          /\ InsideBlock(calls[i], first_row, first_col, rows_count, cols_count)
    /\ rows_count = 0 => calls = <<>>

\* C23: for every frame the renderers request (a panel of 0 or more rows, 2
\* columns for a single card), every cell range draw_frame_border passes to
\* the worksheet is well-formed (first row <= last row, first column <= last
\* column, no negative index) and lies inside the requested block, and an
\* empty panel draws nothing.
C23_FramesInBlocks ==
    (last.op = "to_excel" /\ out.kind = "excel") =>
        /\ FrameInBlock(out.frames[1], 0, 0, n_ov, 2)
        /\ FrameInBlock(out.frames[2], n_ov, 0, n_st, 2)
        /\ FrameInBlock(out.frames[3], n_ov_st, 0, n_mi, 2)

\* the frame requests of 1 row or of 3 and more, and of 1 column or of 3
\* and more
C23_FramesOfOtherSizes ==
    (/\ out.kind = "worksheet"
     /\ out.rows_count \notin {0, 2}
     /\ out.cols_count # 2) =>
        FrameInBlock(out.calls, out.first_row, out.first_col,
                     out.rows_count, out.cols_count)

====
